---- MODULE Spec2Model ----
(***************************************************************************)
(* A model of the PDF section extractor of vinnova-data-collection         *)
(* (src/dataFetchScripts/pdf_to_excel_converter.py).                       *)
(*                                                                         *)
(* A Python str is modelled as a sequence of one-character strings, so     *)
(* that offsets, slices, regular-expression matches and str methods are    *)
(* computed character by character as the interpreter computes them.       *)
(***************************************************************************)
EXTENDS Integers, Sequences, FiniteSets, TLC

VARIABLES
    pc,            \* position of the call under analysis
    text,          \* the text argument of the function under analysis
    section,       \* extract_section: the field whose patterns are passed
    ret,           \* the value returned by the (first) call
    ret2,          \* a second value: clean_text called on ret; the
                   \* section_positions of extract_project_data
    raised,        \* TRUE when an exception left the function
    pages,         \* convert_pdf_to_excel: the page texts of the PDF
    page_num,      \* convert_pdf_to_excel: index of the next page
    all_projects,  \* convert_pdf_to_excel: the records collected so far
    df,            \* convert_pdf_to_excel: the table returned (NoFrame for None)
    st_errors,     \* number of st.error messages shown
    excel_data,    \* main: the workbook written for download (<<>> for none)
    max_length,    \* format_long_text: the max_length argument
    response,      \* VinnovaAPI: what requests.get meets on the network
    selected_fields, \* extract_specific_fields: the fields of the script run
    files          \* extract_specific_fields: the JSON files written

vars == <<pc, text, section, ret, ret2, raised,
          pages, page_num, all_projects, df, st_errors, excel_data,
          max_length, response, selected_fields, files>>

-----------------------------------------------------------------------------
(* Bounds of the model.                                                    *)

MaxCleanLen == 5      \* clean_text: longest input text, in characters
MaxBulletLen == 5     \* convert_bullets_to_numbers: longest input text
MaxPartnerLen == 5    \* extract_project_partners: longest enumerated text
MaxSectionChunks == 4 \* extract_section: most chunks a text is built from
MaxDataChunks == 4    \* extract_project_data: most chunks of a record text
MaxBudgetChunks == 4  \* extract_project_data: most chunks of a budget text
MaxCostPieces == 4    \* extract_project_data: most pieces behind a cost label
MaxFieldPieces == 4   \* extract_project_data: most pieces of a field's content
MaxPages == 3         \* convert_pdf_to_excel: most pages of a PDF
MaxLanguageSwitches == 1 \* well-formed records: most changes of language
MaxFormatLen == 6     \* format_long_text: longest input text, in characters
MaxWidth == 3         \* format_long_text: largest max_length
MaxItems == 2         \* extract_specific_fields: most items of a fetched list
MaxSandboxPages == 2  \* sandbox convert_pdf_to_excel: most pages of a PDF

-----------------------------------------------------------------------------
(* Python values.                                                          *)

\* df before a table is built, and the None returned in place of a table: a
\* table without columns (a table that is returned has the eight base columns)
NoFrame == [columns |-> <<>>, rows |-> <<>>]

\* the missing value pandas puts where a record lacks a column
NaN == <<"NaN">>

\* None: a one-element sequence no text equals (a text holds one-character
\* strings only), so that it compares with every str of the model.
None == <<"None">>

\* The characters str.strip() removes and the regex class \s matches.
Whitespace == {" ", "\t", "\n"}

\* The punctuation class [.,;)] of clean_text.
Punctuation == {".", ",", ";", ")"}

\* Characters outside ASCII are written by their code point.
BlackCircle == "U+25CF"
BulletDot == "U+2022"
a_ring == "U+00E5"
a_uml == "U+00E4"
o_uml == "U+00F6"
A_ring == "U+00C5"
A_uml == "U+00C4"
O_uml == "U+00D6"

\* The list of bullet glyphs: black circle, bullet, hyphen, asterisk.
bullets == <<BlackCircle, BulletDot, "-", "*">>

BulletSet == {bullets[i] : i \in 1..Len(bullets)}

RECURSIVE SeqsUpTo(_, _)
\* All sequences over alphabet A of length at most n.
SeqsUpTo(A, n) ==
    IF n = 0 THEN {<<>>}
    ELSE LET shorter == SeqsUpTo(A, n - 1)
         IN  shorter \cup {Append(s, c) : s \in {t \in shorter : Len(t) = n - 1}, c \in A}

Max(S) == CHOOSE x \in S : \A y \in S : y <= x

Min(S) == CHOOSE x \in S : \A y \in S : x <= y

RECURSIVE FlattenRange(_, _, _)
\* parts[lo] \o ... \o parts[hi], by halves
FlattenRange(parts, lo, hi) ==
    IF lo > hi THEN <<>>
    ELSE IF lo = hi THEN parts[lo]
    ELSE LET mid == (lo + hi) \div 2
         IN  FlattenRange(parts, lo, mid) \o FlattenRange(parts, mid + 1, hi)

\* ''.join(parts)
Concat(parts) == FlattenRange(parts, 1, Len(parts))

\* s[i:j] with 0-based offsets 0 <= i, j <= len(s)
Slice(s, i, j) == IF j <= i THEN <<>> ELSE SubSeq(s, i + 1, j)

\* the indices of s that hold no whitespace
NonWs(s) == {i \in 1..Len(s) : s[i] \notin Whitespace}

\* str.lstrip()
LStrip(s) == IF NonWs(s) = {} THEN <<>> ELSE SubSeq(s, Min(NonWs(s)), Len(s))

\* str.strip()
Strip(s) == IF NonWs(s) = {} THEN <<>> ELSE SubSeq(s, Min(NonWs(s)), Max(NonWs(s)))

RECURSIVE SplitFrom(_, _, _)
\* the pieces of s from index i on, seps being the indices of the separator
SplitFrom(s, seps, i) ==
    LET later == {j \in seps : j >= i}
    IN  IF later = {} THEN <<SubSeq(s, i, Len(s))>>
        ELSE <<SubSeq(s, i, Min(later) - 1)>> \o SplitFrom(s, seps, Min(later) + 1)

\* str.split(sep) for a one-character separator
Split(s, sep) == SplitFrom(s, {i \in 1..Len(s) : s[i] = sep}, 1)

RECURSIVE Join(_, _)
\* sep.join(lines)
Join(lines, sep) ==
    IF lines = <<>> THEN <<>>
    ELSE IF Len(lines) = 1 THEN lines[1]
    ELSE lines[1] \o <<sep>> \o Join(Tail(lines), sep)

\* a collapse that rewrites pairs of whitespace, as re.sub(r'\s\s?', ' ', line)
\* would, instead of whole runs
SubWsPairs(line) ==
    LET \* the start of the whitespace run that holds index i
        RunStart(i) == Max({j \in 1..i : j = 1 \/ line[j - 1] \notin Whitespace})
    IN  Concat([i \in 1..Len(line) |->
            IF line[i] \notin Whitespace THEN <<line[i]>>
            ELSE IF (i - RunStart(i)) % 2 = 0 THEN <<" ">> ELSE <<>>])

\* re.sub(r'\s+', ' ', line): each whitespace run becomes one space
SubWs(line) ==
    Concat([i \in 1..Len(line) |->
        IF line[i] \notin Whitespace THEN <<line[i]>>
        ELSE IF i > 1 /\ line[i - 1] \in Whitespace THEN <<>> ELSE <<" ">>])

\* the first index at or after i that holds no whitespace, len(s) + 1 when
\* only whitespace follows
WsRunEnd(s, i) == Min({j \in i..(Len(s) + 1) : j > Len(s) \/ s[j] \notin Whitespace})

\* re.sub(r'\s+([.,;)])', r'\1', line): a whitespace run that ends before a
\* punctuation character is removed
SubPunct(line) ==
    Concat([i \in 1..Len(line) |->
        IF /\ line[i] \in Whitespace
           /\ WsRunEnd(line, i) <= Len(line)
           /\ line[WsRunEnd(line, i)] \in Punctuation
        THEN <<>> ELSE <<line[i]>>])

-----------------------------------------------------------------------------
(* clean_text                                                              *)

RECURSIVE CleanLines(_)
CleanLines(lines) ==
    IF lines = <<>> THEN <<>>
    ELSE LET cleaned_line == SubPunct(SubWs(Head(lines)))
         IN  IF Strip(cleaned_line) # <<>>
             THEN <<cleaned_line>> \o CleanLines(Tail(lines))
             ELSE CleanLines(Tail(lines))

clean_text(t) == Join(CleanLines(Split(t, "\n")), "\n")

-----------------------------------------------------------------------------
(* The normalizer, called once and then again on its own result.           *)

CleanAlphabet == {"a", " ", "\t", "\n", ".", ")"}

CleanInputs == SeqsUpTo(CleanAlphabet, MaxCleanLen)

Idle ==
    /\ section = None /\ ret2 = None /\ raised = FALSE
    /\ pages = <<>> /\ page_num = 0 /\ all_projects = <<>>
    /\ df = NoFrame /\ st_errors = 0 /\ excel_data = <<>>
    /\ max_length = 0 /\ response = None /\ selected_fields = <<>> /\ files = <<>>

InitClean ==
    /\ pc = "start"
    /\ text \in CleanInputs
    /\ ret = None
    /\ Idle

CleanCall ==
    /\ pc = "start"
    /\ ret' = clean_text(text)
    /\ pc' = "cleaned"
    /\ UNCHANGED <<text, section, ret2, raised, pages, page_num, all_projects, df, st_errors, excel_data, max_length, response, selected_fields, files>>

CleanAgain ==
    /\ pc = "cleaned"
    /\ ret2' = clean_text(ret)
    /\ pc' = "recleaned"
    /\ UNCHANGED <<text, section, ret, raised, pages, page_num, all_projects, df, st_errors, excel_data, max_length, response, selected_fields, files>>

NextClean == CleanCall \/ CleanAgain

SpecClean == InitClean /\ [][NextClean]_vars

\* C7: clean_text is idempotent: normalizing an already normalized text
\* returns it unchanged, clean_text(clean_text(t)) = clean_text(t).
C7_CleanTextIdempotent == pc = "recleaned" => ret2 = ret

\* A text with a blank line, a whitespace run and a space before punctuation
\* has been normalized twice.
C7_Witness ==
    /\ pc = "recleaned"
    /\ text = <<"a", " ", " ", ".", "\n">>
    /\ ret = <<"a", ".">>

-----------------------------------------------------------------------------
(* convert_bullets_to_numbers                                              *)

\* any(stripped_line.startswith(bullet) for bullet in bullets), a test that
\* looks for a glyph anywhere in the line
ContainsBullet(stripped_line) ==
    \E i \in 1..Len(stripped_line) : stripped_line[i] \in BulletSet

\* any(stripped_line.startswith(bullet) for bullet in bullets)
StartsWithBullet(stripped_line) ==
    stripped_line # <<>> /\ stripped_line[1] \in BulletSet

\* str.replace(ch, new) for a one-character ch
Replace(s, ch, new) ==
    Concat([i \in 1..Len(s) |-> IF s[i] = ch THEN new ELSE <<s[i]>>])

RECURSIVE RemoveBullets(_, _)
\* for bullet in bullets: stripped_line = stripped_line.replace(bullet, '').strip()
\* from the i-th glyph of the list on
RemoveBullets(stripped_line, i) ==
    IF i > Len(bullets) THEN stripped_line
    ELSE RemoveBullets(Strip(Replace(stripped_line, bullets[i], <<>>)), i + 1)

DigitChars == <<"0", "1", "2", "3", "4", "5", "6", "7", "8", "9">>

RECURSIVE IntToStr(_)
\* str(n) for n >= 0
IntToStr(n) ==
    IF n < 10 THEN <<DigitChars[n + 1]>>
    ELSE IntToStr(n \div 10) \o <<DigitChars[(n % 10) + 1]>>

RECURSIVE NumberLines(_, _)
\* the loop over lines, counter being the next ordinal
NumberLines(lines, counter) ==
    IF lines = <<>> THEN <<>>
    ELSE LET line == Head(lines)
             stripped_line == Strip(line)
         IN  IF StartsWithBullet(stripped_line)
             THEN <<IntToStr(counter) \o <<".", " ">> \o RemoveBullets(stripped_line, 1)>>
                      \o NumberLines(Tail(lines), counter + 1)
             ELSE <<line>> \o NumberLines(Tail(lines), counter)

convert_bullets_to_numbers(t) ==
    IF t = <<>> THEN t
    ELSE LET lines == Split(t, "\n")
         IN  IF ~ \E i \in 1..Len(lines) : StartsWithBullet(Strip(lines[i]))
             THEN t
             ELSE Join(NumberLines(lines, 1), "\n")

-----------------------------------------------------------------------------
(* The bullet converter called on one text.                                *)

BulletAlphabet == {BlackCircle, "-", "a", " ", "\n"}

BulletInputs == SeqsUpTo(BulletAlphabet, MaxBulletLen)

InitBullets ==
    /\ pc = "start"
    /\ text \in BulletInputs
    /\ ret = None
    /\ Idle

BulletsCall ==
    /\ pc = "start"
    /\ ret' = convert_bullets_to_numbers(text)
    /\ pc' = "done"
    /\ UNCHANGED <<text, section, ret2, raised, pages, page_num, all_projects, df, st_errors, excel_data, max_length, response, selected_fields, files>>

NextBullets == BulletsCall

SpecBullets == InitBullets /\ [][NextBullets]_vars

\* A line is bullet-prefixed when, its leading whitespace trimmed, it begins
\* with a bullet glyph.
BulletPrefixed(line) ==
    LET l == LStrip(line) IN l # <<>> /\ l[1] \in BulletSet

HasBulletLine(t) ==
    LET lines == Split(t, "\n") IN \E i \in 1..Len(lines) : BulletPrefixed(lines[i])

\* C8: a text without any bullet-prefixed line, the empty text included, is
\* returned unchanged, character for character.
C8_NoBulletUnchanged ==
    (pc = "done" /\ ~HasBulletLine(text)) => ret = text

\* A text holding a hyphen inside a word, and no bullet-prefixed line, has
\* been converted.
C8_Witness ==
    /\ pc = "done"
    /\ text = <<" ", "a", "-", "a", "\n">>
    /\ ~HasBulletLine(text)
    /\ ret = text

\* The content of a bullet-prefixed line: its text after the leading glyph,
\* trimmed.
BulletContent(line) == Strip(Tail(LStrip(line)))

\* the number of bullet-prefixed lines among the first i lines
RECURSIVE BulletRank(_, _)
BulletRank(lines, i) ==
    IF i = 0 THEN 0
    ELSE BulletRank(lines, i - 1) + (IF BulletPrefixed(lines[i]) THEN 1 ELSE 0)

\* C9: with at least one bullet-prefixed line, the lines keep their number
\* and order, the k-th bullet-prefixed line becomes "k. " followed by its
\* content with no other character changed, and every other line is verbatim.
C9_BulletLinesNumbered ==
    (pc = "done" /\ HasBulletLine(text)) =>
        LET lines == Split(text, "\n")
            out == Split(ret, "\n")
        IN  /\ Len(out) = Len(lines)
            /\ \A i \in 1..Len(lines) :
                  out[i] = IF BulletPrefixed(lines[i])
                           THEN IntToStr(BulletRank(lines, i)) \o <<".", " ">>
                                    \o BulletContent(lines[i])
                           ELSE lines[i]

-----------------------------------------------------------------------------
(* extract_project_partners                                                *)

RECURSIVE StandardizeBullets(_, _)
\* for bullet in bullets: standardized_text = standardized_text.replace(bullet, '|')
StandardizeBullets(t, i) ==
    IF i > Len(bullets) THEN t
    ELSE StandardizeBullets(Replace(t, bullets[i], <<"|">>), i + 1)

RECURSIVE StrippedNonEmpty(_)
\* [part.strip() for part in parts if part.strip()]
StrippedNonEmpty(parts) ==
    IF parts = <<>> THEN <<>>
    ELSE IF Strip(Head(parts)) # <<>>
         THEN <<Strip(Head(parts))>> \o StrippedNonEmpty(Tail(parts))
         ELSE StrippedNonEmpty(Tail(parts))

Contains(s, ch) == \E i \in 1..Len(s) : s[i] = ch

\* the parts one stripped, non-empty line contributes
SplitParts(line) ==
    IF Contains(line, "|") THEN StrippedNonEmpty(Split(line, "|"))
    ELSE IF Contains(line, ",") THEN StrippedNonEmpty(Split(line, ","))
    ELSE <<line>>

RECURSIVE CollectPartners(_)
\* the loop over lines
CollectPartners(lines) ==
    IF lines = <<>> THEN <<>>
    ELSE LET line == Strip(Head(lines))
         IN  IF line = <<>> THEN CollectPartners(Tail(lines))
             ELSE SplitParts(line) \o CollectPartners(Tail(lines))

\* ' '.join(partner.split())
WsNormalize(partner) == Strip(SubWs(partner))

\* a clean-up of the whitespace only
CleanPartnerWhitespaceOnly(partner) == WsNormalize(partner)

\* one partner with the separators '|', ',' and ';' removed and its
\* whitespace cleaned up
CleanPartner(partner) ==
    WsNormalize(Replace(Replace(Replace(partner, "|", <<>>), ",", <<>>), ";", <<>>))

RECURSIVE CleanPartnersKeepAll(_)
\* a clean-up loop without the final "if partner"
CleanPartnersKeepAll(partners) ==
    IF partners = <<>> THEN <<>>
    ELSE <<CleanPartner(Head(partners))>> \o CleanPartnersKeepAll(Tail(partners))

RECURSIVE CleanPartners(_)
\* the clean-up loop
CleanPartners(partners) ==
    IF partners = <<>> THEN <<>>
    ELSE LET partner == CleanPartner(Head(partners))
         IN  IF partner # <<>>
             THEN <<partner>> \o CleanPartners(Tail(partners))
             ELSE CleanPartners(Tail(partners))

extract_project_partners(t) ==
    IF t = <<>> THEN <<>>
    ELSE CleanPartners(CollectPartners(Split(StandardizeBullets(t, 1), "\n")))

-----------------------------------------------------------------------------
(* The partner decomposer called on one text.                              *)

PartnerAlphabet == {BlackCircle, "-", ",", ";", " ", "\n", "a"}

\* "(bullet) Alpha AB\n(bullet) Beta AB, Gamma AB"
PartnerExample ==
    <<BlackCircle, " ", "A", "l", "p", "h", "a", " ", "A", "B", "\n",
      BlackCircle, " ", "B", "e", "t", "a", " ", "A", "B", ",", " ", "G",
      "a", "m", "m", "a", " ", "A", "B">>

AlphaAB ==
    <<"A", "l", "p", "h", "a", " ", "A", "B">>

BetaAB ==
    <<"B", "e", "t", "a", " ", "A", "B">>

GammaAB ==
    <<"G", "a", "m", "m", "a", " ", "A", "B">>

PartnerInputs == SeqsUpTo(PartnerAlphabet, MaxPartnerLen) \cup {PartnerExample}

InitPartners ==
    /\ pc = "start"
    /\ text \in PartnerInputs
    /\ ret = None
    /\ Idle

PartnersCall ==
    /\ pc = "start"
    /\ ret' = extract_project_partners(text)
    /\ pc' = "done"
    /\ UNCHANGED <<text, section, ret2, raised, pages, page_num, all_projects, df, st_errors, excel_data, max_length, response, selected_fields, files>>

NextPartners == PartnersCall

SpecPartners == InitPartners /\ [][NextPartners]_vars

\* C1: the partner text "(bullet) Alpha AB\n(bullet) Beta AB, Gamma AB"
\* decomposes into exactly the three items Alpha AB, Beta AB, Gamma AB.
C1_PartnerExampleSplit ==
    (pc = "done" /\ text = PartnerExample) => ret = <<AlphaAB, BetaAB, GammaAB>>

\* the text with every bullet glyph written as the separator
Separated(t) == [i \in 1..Len(t) |-> IF t[i] \in BulletSet THEN "|" ELSE t[i]]

\* the line of the separated text u that holds index i has a '|'
LineHasBar(u, i) ==
    \E j \in 1..Len(u) :
        /\ u[j] = "|"
        /\ \A m \in (IF i < j THEN i ELSE j)..(IF i < j THEN j ELSE i) : u[m] # "\n"

\* the indices where one item ends and the next begins: the line breaks, the
\* separators, the commas of a line without separator, and the two ends
ItemBoundaries(u) ==
    {0, Len(u) + 1}
        \cup {i \in 1..Len(u) : u[i] \in {"\n", "|"}}
        \cup {i \in 1..Len(u) : u[i] = "," /\ ~LineHasBar(u, i)}

\* the n-th boundary from the left
BoundaryAt(u, n) ==
    CHOOSE b \in ItemBoundaries(u) :
        Cardinality({c \in ItemBoundaries(u) : c < b}) = n - 1

\* the split items of the text, in line order and, within a line, split order
SplitItems(t) ==
    LET u == Separated(t)
    IN  [n \in 1..(Cardinality(ItemBoundaries(u)) - 1) |->
            SubSeq(u, BoundaryAt(u, n) + 1, BoundaryAt(u, n + 1) - 1)]

\* an item as it is returned: the characters '|', ',' and ';' removed,
\* whitespace runs collapsed, trimmed
ItemText(item) ==
    Strip(SubWs(SelectSeq(item, LAMBDA c : c \notin {"|", ",", ";"})))

\* the returned form of the items that satisfy Kept, in order
KeptItems(t, Kept(_)) ==
    LET kept == SelectSeq(SplitItems(t), Kept)
    IN  [n \in 1..Len(kept) |-> ItemText(kept[n])]

\* C19 as stated: the result is empty for the empty text, and otherwise holds
\* the split items in order, an item being dropped only if it is empty after
\* trimming whitespace.
C19_OnlyBlankItemsDropped ==
    pc = "done" =>
        /\ text = <<>> => ret = <<>>
        /\ ret = KeptItems(text, LAMBDA item : Strip(item) # <<>>)

\* C19 amended: an item is dropped only if nothing remains of it after the
\* characters '|', ',' and ';' are removed and whitespace is trimmed.
C19_OnlyEmptiedItemsDropped ==
    pc = "done" =>
        /\ text = <<>> => ret = <<>>
        /\ ret = KeptItems(text, LAMBDA item : ItemText(item) # <<>>)

\* "a,;,a": the middle item ";" is dropped, the two names are returned
C19_Witness ==
    /\ pc = "done"
    /\ text = <<"a", ",", ";", ",", "a">>
    /\ ret = <<<<"a">>, <<"a">>>>

\* C26: every item returned is a non-empty string without whitespace at
\* either end, without two whitespace characters in a row, and without any
\* of the bullet glyphs, the bar, the comma and the semicolon.
C26_PartnerItemsClean ==
    pc = "done" =>
        \A k \in 1..Len(ret) :
            /\ ret[k] # <<>>
            /\ ret[k][1] \notin Whitespace /\ ret[k][Len(ret[k])] \notin Whitespace
            /\ \A i \in 1..(Len(ret[k]) - 1) :
                   ~(ret[k][i] \in Whitespace /\ ret[k][i + 1] \in Whitespace)
            /\ \A i \in 1..Len(ret[k]) :
                   ret[k][i] \notin BulletSet \cup {"|", ",", ";"}

\* "-a,;a": behind the bullet the comma and the semicolon are removed from
\* inside the item, which comes out as "aa"
C26_Witness ==
    /\ pc = "done"
    /\ text = <<"-", "a", ",", ";", "a">>
    /\ ret = <<<<"a", "a">>>>

-----------------------------------------------------------------------------
(* Regular expressions, as re matches them under re.IGNORECASE.            *)

UpperChars ==
    <<"A", "B", "C", "D", "E", "F", "G", "H", "I", "J", "K", "L", "M", "N",
      "O", "P", "Q", "R", "S", "T", "U", "V", "W", "X", "Y", "Z",
      A_ring, A_uml, O_uml>>

LowerChars ==
    <<"a", "b", "c", "d", "e", "f", "g", "h", "i", "j", "k", "l", "m", "n",
      "o", "p", "q", "r", "s", "t", "u", "v", "w", "x", "y", "z",
      a_ring, a_uml, o_uml>>

UpperSet == {UpperChars[i] : i \in 1..Len(UpperChars)}

LowerMap ==
    [c \in UpperSet |-> LowerChars[CHOOSE i \in 1..Len(UpperChars) : UpperChars[i] = c]]

\* the case folding of one character
Lower(c) == IF c \in UpperSet THEN LowerMap[c] ELSE c

\* the case folding of a text
LowerStr(s) == [i \in 1..Len(s) |-> Lower(s[i])]

\* the literal phrase matches s from the 1-based index i on, letter case
\* ignored (ls is the folded s, phrase is folded here)
PhraseAt(ls, phrase, i) ==
    /\ i + Len(phrase) - 1 <= Len(ls)
    /\ \A k \in 1..Len(phrase) : ls[i + k - 1] = Lower(phrase[k])

RECURSIVE AltLenAt(_, _, _, _)
\* (?:alt1|alt2|...) at index i: the length of the first alternative, from
\* the a-th on, that matches there; 0 when none does
AltLenAt(ls, alts, i, a) ==
    IF a > Len(alts) THEN 0
    ELSE IF PhraseAt(ls, alts[a], i) THEN Len(alts[a])
    ELSE AltLenAt(ls, alts, i, a + 1)

\* \(.*?\) with the opening parenthesis before index i: the index of the
\* first ")" that no line break precedes; 0 when there is none
CloseParen(s, i) ==
    LET stops == {j \in i..Len(s) : s[j] = ")" \/ s[j] = "\n"}
    IN  IF stops = {} \/ s[Min(stops)] = "\n" THEN 0 ELSE Min(stops)

\* (?:\s*\(.*?\))? from index p on: the index after the group, p when the
\* group matches nothing
AfterAnnotation(s, p) ==
    LET q == WsRunEnd(s, p)
        r == IF q <= Len(s) /\ s[q] = "(" THEN CloseParen(s, q + 1) ELSE 0
    IN  IF r > 0 THEN r + 1 ELSE p

\* [\s:]* from index p on: the index after the run
AfterWsColon(s, p) ==
    Min({j \in p..(Len(s) + 1) : j > Len(s) \/ ~(s[j] \in Whitespace \/ s[j] = ":")})

\* A pattern of the tables: alts is the alternation of header phrases; tail
\* tells whether (?:\s*\(.*?\))?[\s:]* follows it.
Pattern(alts, tail) == [alts |-> alts, tail |-> tail]

\* the match of pattern at index i: <<start(), end()>> as 0-based offsets,
\* <<>> when the pattern does not match there
MatchAt(pattern, s, ls, i) ==
    LET n == AltLenAt(ls, pattern.alts, i, 1)
    IN  IF n = 0 THEN <<>>
        ELSE IF pattern.tail
             THEN <<i - 1, AfterWsColon(s, AfterAnnotation(s, i + n)) - 1>>
             ELSE <<i - 1, i + n - 1>>

\* the indices at which the alternation of the pattern matches
AltStarts(pattern, ls) == {i \in 1..Len(ls) : AltLenAt(ls, pattern.alts, i, 1) > 0}

RECURSIVE FindIterFrom(_, _, _, _, _)
\* the matches from index i on, cand being AltStarts
FindIterFrom(pattern, s, ls, cand, i) ==
    LET later == {j \in cand : j >= i}
    IN  IF later = {} THEN <<>>
        ELSE LET m == MatchAt(pattern, s, ls, Min(later))
             IN  <<m>> \o FindIterFrom(pattern, s, ls, cand, m[2] + 1)

\* list(re.finditer(pattern, text, re.IGNORECASE | re.MULTILINE)): the
\* non-overlapping matches from left to right
FindIter(pattern, s) ==
    LET ls == LowerStr(s) IN FindIterFrom(pattern, s, ls, AltStarts(pattern, ls), 1)

\* re.search(pattern, text, re.IGNORECASE | re.MULTILINE): the leftmost
\* match, <<>> for no match
Search(pattern, s) ==
    LET ls == LowerStr(s)
        cand == AltStarts(pattern, ls)
    IN  IF cand = {} THEN <<>> ELSE MatchAt(pattern, s, ls, Min(cand))

-----------------------------------------------------------------------------
(* The header phrases of the pattern tables.                               *)

\* "Insatsomrade som projektet adresserar"
InsatsSv ==
    <<"I", "n", "s", "a", "t", "s", "o", "m", "r", a_ring, "d", "e", " ",
      "s", "o", "m", " ", "p", "r", "o", "j", "e", "k", "t", "e", "t", " ",
      "a", "d", "r", "e", "s", "s", "e", "r", "a", "r">>

\* "Focus area of the project"
InsatsEn ==
    <<"F", "o", "c", "u", "s", " ", "a", "r", "e", "a", " ", "o", "f", " ",
      "t", "h", "e", " ", "p", "r", "o", "j", "e", "c", "t">>

\* "Projektets titel"
TitelSv ==
    <<"P", "r", "o", "j", "e", "k", "t", "e", "t", "s", " ", "t", "i", "t",
      "e", "l">>

\* "Project title"
TitelEn ==
    <<"P", "r", "o", "j", "e", "c", "t", " ", "t", "i", "t", "l", "e">>

\* "Mal for projektet"
MalSv ==
    <<"M", a_ring, "l", " ", "f", o_uml, "r", " ", "p", "r", "o", "j", "e",
      "k", "t", "e", "t">>

\* "Mal for samverkansprojektet"
MalSamverkanSv ==
    <<"M", a_ring, "l", " ", "f", o_uml, "r", " ", "s", "a", "m", "v", "e",
      "r", "k", "a", "n", "s", "p", "r", "o", "j", "e", "k", "t", "e", "t">>

\* "Objective for the project"
MalEn ==
    <<"O", "b", "j", "e", "c", "t", "i", "v", "e", " ", "f", "o", "r", " ",
      "t", "h", "e", " ", "p", "r", "o", "j", "e", "c", "t">>

\* "Collaboration project objectives"
MalCollabEn ==
    <<"C", "o", "l", "l", "a", "b", "o", "r", "a", "t", "i", "o", "n", " ",
      "p", "r", "o", "j", "e", "c", "t", " ", "o", "b", "j", "e", "c", "t",
      "i", "v", "e", "s">>

\* "Sammanfattning"
SammanSv ==
    <<"S", "a", "m", "m", "a", "n", "f", "a", "t", "t", "n", "i", "n", "g">>

\* "Summary"
SammanEn ==
    <<"S", "u", "m", "m", "a", "r", "y">>

\* "Koordinerande projektpart"
KoordSv ==
    <<"K", "o", "o", "r", "d", "i", "n", "e", "r", "a", "n", "d", "e", " ",
      "p", "r", "o", "j", "e", "k", "t", "p", "a", "r", "t">>

\* "Coordinator organization"
KoordEn ==
    <<"C", "o", "o", "r", "d", "i", "n", "a", "t", "o", "r", " ", "o", "r",
      "g", "a", "n", "i", "z", "a", "t", "i", "o", "n">>

\* "Ovriga projektparter"
OvrigaSv ==
    <<O_uml, "v", "r", "i", "g", "a", " ", "p", "r", "o", "j", "e", "k",
      "t", "p", "a", "r", "t", "e", "r">>

\* "Other project parties"
OvrigaEn ==
    <<"O", "t", "h", "e", "r", " ", "p", "r", "o", "j", "e", "c", "t", " ",
      "p", "a", "r", "t", "i", "e", "s">>

\* "Totalt budgeterad"
BudgetEndSv ==
    <<"T", "o", "t", "a", "l", "t", " ", "b", "u", "d", "g", "e", "t", "e",
      "r", "a", "d">>

\* "Total budgeted"
BudgetEndEn ==
    <<"T", "o", "t", "a", "l", " ", "b", "u", "d", "g", "e", "t", "e", "d">>

\* "Totalt budgeterad kostnad for projektet"
KostnadSv ==
    <<"T", "o", "t", "a", "l", "t", " ", "b", "u", "d", "g", "e", "t", "e",
      "r", "a", "d", " ", "k", "o", "s", "t", "n", "a", "d", " ", "f",
      o_uml, "r", " ", "p", "r", "o", "j", "e", "k", "t", "e", "t">>

\* "Total budgeted cost"
KostnadEn ==
    <<"T", "o", "t", "a", "l", " ", "b", "u", "d", "g", "e", "t", "e", "d",
      " ", "c", "o", "s", "t">>

\* "Totalt sokt bidrag"
BidragSv ==
    <<"T", "o", "t", "a", "l", "t", " ", "s", o_uml, "k", "t", " ", "b",
      "i", "d", "r", "a", "g">>

\* "Total requested contribution"
BidragEn ==
    <<"T", "o", "t", "a", "l", " ", "r", "e", "q", "u", "e", "s", "t", "e",
      "d", " ", "c", "o", "n", "t", "r", "i", "b", "u", "t", "i", "o", "n">>

-----------------------------------------------------------------------------
(* The keys of a record: the Swedish header phrases.                        *)

Insatsomrade == InsatsSv
Titel == TitelSv
Mal == MalSv
Sammanfattning == SammanSv
Koordinerande == KoordSv
Ovriga == OvrigaSv
Kostnad == KostnadSv
Bidrag == BidragSv

\* the keys of data, in insertion order
DataKeys == <<Insatsomrade, Titel, Mal, Sammanfattning, Koordinerande, Ovriga, Kostnad, Bidrag>>

\* the six keys the section loop handles
SectionKeys == <<Insatsomrade, Titel, Mal, Sammanfattning, Koordinerande, Ovriga>>

\* the alternation of header phrases of each free-text field
HeaderAlts(sec) ==
    CASE sec = Insatsomrade   -> <<InsatsSv, InsatsEn>>
      [] sec = Titel          -> <<TitelSv, TitelEn>>
      [] sec = Mal            -> <<MalSv, MalSamverkanSv, MalEn, MalCollabEn>>
      [] sec = Sammanfattning -> <<SammanSv, SammanEn>>
      [] sec = Koordinerande  -> <<KoordSv, KoordEn>>
      [] sec = Ovriga         -> <<OvrigaSv, OvrigaEn>>

\* the table of start patterns
start_pattern(sec) == Pattern(HeaderAlts(sec), TRUE)

\* an end pattern that knows the Swedish budget header only
budget_end_pattern_sv == Pattern(<<BudgetEndSv>>, FALSE)

\* the end pattern of the last found section
budget_end_pattern == Pattern(<<BudgetEndSv, BudgetEndEn>>, FALSE)

\* the table of end patterns, keyed by the section
end_pattern(sec) ==
    CASE sec = Insatsomrade   -> Pattern(HeaderAlts(Titel), FALSE)
      [] sec = Titel          -> Pattern(HeaderAlts(Mal), FALSE)
      [] sec = Mal            -> Pattern(HeaderAlts(Sammanfattning), FALSE)
      [] sec = Sammanfattning -> Pattern(HeaderAlts(Koordinerande), FALSE)
      [] sec = Koordinerande  -> Pattern(HeaderAlts(Ovriga), FALSE)
      [] sec = Ovriga         -> budget_end_pattern

-----------------------------------------------------------------------------
(* extract_section                                                         *)

\* the exception re.finditer raises on a text that is no str
TypeError == <<"TypeError">>

RECURSIVE FirstEndAfter(_, _, _)
\* the loop over end_matches: the start() of the first one, from the k-th
\* on, that lies after start_pos; -1 when the loop ends without a break
FirstEndAfter(end_matches, start_pos, k) ==
    IF k > Len(end_matches) THEN -1
    ELSE IF end_matches[k][1] > start_pos THEN end_matches[k][1]
    ELSE FirstEndAfter(end_matches, start_pos, k + 1)

\* a choice of the first start match instead of the last
FirstStart(start_matches) == start_matches[1]

\* the start match chosen: the last one
ChosenStart(start_matches) == start_matches[Len(start_matches)]

\* a body that lets a section without an end match run to the end of the text
extract_section_to_end(t, sp, ep) ==
    IF t = None THEN TypeError
    ELSE LET start_matches == FindIter(sp, t)
             end_matches == FindIter(ep, t)
         IN  IF start_matches = <<>> THEN <<>>
             ELSE LET start_pos == ChosenStart(start_matches)[2]
                      e == FirstEndAfter(end_matches, start_pos, 1)
                  IN  Strip(Slice(t, start_pos, IF e = -1 THEN Len(t) ELSE e))

\* the body of the try block; TypeError when the matching raises
extract_section_try(t, sp, ep) ==
    IF t = None THEN TypeError
    ELSE LET start_matches == FindIter(sp, t)
             end_matches == FindIter(ep, t)
         IN  IF start_matches = <<>> THEN <<>>
             ELSE LET start_pos == ChosenStart(start_matches)[2]
                      e == FirstEndAfter(end_matches, start_pos, 1)
                  IN  IF e = -1 THEN <<>> ELSE Strip(Slice(t, start_pos, e))

\* the function without its except clause
extract_section_unguarded(t, sp, ep) == extract_section_try(t, sp, ep)

extract_section(t, sp, ep) ==
    LET r == extract_section_try(t, sp, ep)
    IN  IF r = TypeError THEN <<>> ELSE r

-----------------------------------------------------------------------------
(* The section slicer called with the patterns of one field.               *)

\* "SUMMARY"
SummaryUpper ==
    <<"S", "U", "M", "M", "A", "R", "Y">>

\* "summary"
SummaryLower ==
    <<"s", "u", "m", "m", "a", "r", "y">>

SectionChoices == {Mal, Sammanfattning}

\* the pieces the texts are built from: a start header and an end header of
\* the field, in a letter case of their own, and filling
SectionChunks(sec) ==
    (IF sec = Mal THEN {MalEn, SummaryUpper} ELSE {SummaryLower, KoordEn})
        \cup {<<" ">>, <<":">>, <<"x">>, <<"(">>, <<")">>, <<"\n">>}

SectionTexts(sec) ==
    {Concat(cs) : cs \in SeqsUpTo(SectionChunks(sec), MaxSectionChunks)} \cup {None}

InitSection ==
    /\ pc = "start"
    /\ section \in SectionChoices
    /\ text \in SectionTexts(section)
    /\ ret = None
    /\ ret2 = None /\ raised = FALSE
    /\ pages = <<>> /\ page_num = 0 /\ all_projects = <<>>
    /\ df = NoFrame /\ st_errors = 0 /\ excel_data = <<>>
    /\ max_length = 0 /\ response = None /\ selected_fields = <<>> /\ files = <<>>

SectionCall ==
    /\ pc = "start"
    /\ LET r == extract_section(text, start_pattern(section), end_pattern(section))
       IN  /\ raised' = (r = TypeError)
           /\ ret' = IF r = TypeError THEN None ELSE r
    /\ pc' = "done"
    /\ UNCHANGED <<text, section, ret2, pages, page_num, all_projects, df, st_errors, excel_data, max_length, response, selected_fields, files>>

NextSection == SectionCall

SpecSection == InitSection /\ [][NextSection]_vars

\* the offsets at which matches of the pattern end, and at which they begin
MatchEnds(pattern, t) == LET ms == FindIter(pattern, t) IN {ms[k][2] : k \in 1..Len(ms)}

MatchStarts(pattern, t) == LET ms == FindIter(pattern, t) IN {ms[k][1] : k \in 1..Len(ms)}

\* the start boundary: the end of the last start-pattern match
StartBoundary(t, sec) == Max(MatchEnds(start_pattern(sec), t))

\* the end-pattern matches that begin strictly after the start boundary
EndsAfter(t, sec) ==
    {e \in MatchStarts(end_pattern(sec), t) : e > StartBoundary(t, sec)}

\* C4: when the start pattern matches and an end-pattern match begins
\* strictly after the start boundary, the result is the trimmed text from the
\* end of the last start match up to the first such end match.
C4_SectionBetweenBoundaries ==
    (/\ pc = "done"
     /\ text # None
     /\ MatchEnds(start_pattern(section), text) # {}
     /\ EndsAfter(text, section) # {})
        => ret = Strip(Slice(text, StartBoundary(text, section), Min(EndsAfter(text, section))))

\* A text with two start headers and two end headers after the last of them
\* has been sliced: the content lies between the second start and the first
\* end that follows.
C4_Witness ==
    /\ pc = "done"
    /\ section = Sammanfattning
    /\ text = SummaryLower \o SummaryLower \o <<"x">> \o KoordEn
    /\ ret = <<"x">>

\* C5: extract_section never raises, and returns the empty string when the
\* text cannot be matched (an exception), when the start pattern has no match
\* and when no end-pattern match begins strictly after the start boundary.
C5_SectionEmptyNeverRaises ==
    pc = "done" =>
        /\ ~raised
        /\ (\/ text = None
            \/ MatchEnds(start_pattern(section), text) = {}
            \/ EndsAfter(text, section) = {}) => ret = <<>>

\* The three cases happen: an exception, and (here) an end header that lies
\* exactly at the start boundary.
C5_Witness ==
    /\ pc = "done"
    /\ section = Sammanfattning
    /\ text = KoordEn \o SummaryLower \o <<":">> \o KoordEn
    /\ ret = <<>>

-----------------------------------------------------------------------------
(* A Python dict: the sequence of its <<key, value>> items in insertion    *)
(* order.                                                                  *)

Keys(d) == [i \in 1..Len(d) |-> d[i][1]]

HasKey(d, k) == \E i \in 1..Len(d) : d[i][1] = k

\* d[k]
Get(d, k) == d[CHOOSE i \in 1..Len(d) : d[i][1] = k][2]

\* d[k] = v
Put(d, k, v) ==
    IF HasKey(d, k) THEN [i \in 1..Len(d) |-> IF d[i][1] = k THEN <<k, v>> ELSE d[i]]
    ELSE Append(d, <<k, v>>)

-----------------------------------------------------------------------------
(* extract_project_data                                                    *)

\* the header pattern the locator searches for a section
locator_pattern(sec) == Pattern(HeaderAlts(sec), FALSE)

\* match = re.search(pattern, text, re.IGNORECASE | re.MULTILINE)
LocateHeader(sec, t) == Search(locator_pattern(sec), t)

RECURSIVE FindPositions(_, _)
\* the first loop, from the k-th section key on: (match.start(), section)
\* for each section whose header is found
FindPositions(t, k) ==
    IF k > Len(SectionKeys) THEN <<>>
    ELSE LET match == LocateHeader(SectionKeys[k], t)
         IN  (IF match # <<>> THEN <<<<match[1], SectionKeys[k]>>>> ELSE <<>>)
                 \o FindPositions(t, k + 1)

\* the six section keys in the order Python compares them as strings
KeyOrder == <<Insatsomrade, Koordinerande, Mal, Titel, Sammanfattning, Ovriga>>

KeyRank(sec) == CHOOSE i \in 1..Len(KeyOrder) : KeyOrder[i] = sec

\* (pos, section) tuples as Python orders them
TupleLess(a, b) == a[1] < b[1] \/ (a[1] = b[1] /\ KeyRank(a[2]) < KeyRank(b[2]))

\* the positions left in the order the fields were searched
Unsorted(l) == l

RECURSIVE Sorted(_)
\* list.sort()
Sorted(l) ==
    IF l = <<>> THEN <<>>
    ELSE LET least == CHOOSE i \in 1..Len(l) :
                         \A j \in 1..Len(l) : j = i \/ TupleLess(l[i], l[j]) \/ (l[j] = l[i] /\ i < j)
         IN  <<l[least]>> \o Sorted([j \in 1..(Len(l) - 1) |-> IF j < least THEN l[j] ELSE l[j + 1]])

\* section_positions after the sort
section_positions(t) == Sorted(FindPositions(t, 1))

RECURSIVE StrippedLines(_)
\* the cleaning loop: re.sub(r'\s+', ' ', line).strip(), empty lines dropped
StrippedLines(lines) ==
    IF lines = <<>> THEN <<>>
    ELSE LET cleaned_line == Strip(SubWs(Head(lines)))
         IN  IF cleaned_line # <<>>
             THEN <<cleaned_line>> \o StrippedLines(Tail(lines))
             ELSE StrippedLines(Tail(lines))

\* bullets becoming ordinals in every section
AllSectionsNumbered == {SectionKeys[k] : k \in 1..Len(SectionKeys)}

\* the sections whose bullets become ordinals
NumberedSections == {Mal, Sammanfattning}

\* the value stored for a section whose content is not blank
SectionValue(sec, content) ==
    LET cleaned == Join(StrippedLines(Split(content, "\n")), "\n")
    IN  IF sec \in NumberedSections THEN convert_bullets_to_numbers(cleaned) ELSE cleaned

\* an end pattern taken from the section found next in the text
EndPatternOfNext(positions, i) ==
    IF i < Len(positions) THEN Pattern(HeaderAlts(positions[i + 1][2]), FALSE)
    ELSE budget_end_pattern

\* the end pattern of the i-th found section
EndPatternOf(positions, i) ==
    IF i < Len(positions) THEN end_pattern(positions[i][2]) ELSE budget_end_pattern

RECURSIVE ExtractSections(_, _, _, _)
\* the second loop, from the i-th found section on
ExtractSections(t, positions, i, data) ==
    IF i > Len(positions) THEN data
    ELSE LET sec == positions[i][2]
             content == extract_section(t, start_pattern(sec), EndPatternOf(positions, i))
         IN  ExtractSections(t, positions, i + 1,
                 IF Strip(content) # <<>> THEN Put(data, sec, SectionValue(sec, content))
                 ELSE data)

Digits == {DigitChars[i] : i \in 1..Len(DigitChars)}

\* the class [0-9\s,\.]
NumberClass == Digits \cup Whitespace \cup {",", "."}

\* "MSEK", "SEK"
UnitAlts == <<<<"M", "S", "E", "K">>, <<"S", "E", "K">>>>

\* \s*([0-9\s,\.]+(?:\s*(?:MSEK|SEK))?) from index c on: <<first, last>>
\* indices of group 1, <<>> when it does not match
CaptureAt(s, ls, c) ==
    LET w == WsRunEnd(s, c)
        \* \s* takes the whole whitespace run when a digit, comma or period
        \* follows it, and gives one whitespace character back otherwise
        first == IF w <= Len(s) /\ s[w] \in NumberClass THEN w
                 ELSE IF w > c THEN w - 1 ELSE 0
        stop == Min({j \in w..(Len(s) + 1) : j > Len(s) \/ s[j] \notin NumberClass})
        unit == AltLenAt(ls, UnitAlts, stop, 1)
    IN  IF first = 0 THEN <<>> ELSE <<first, stop + unit - 1>>

\* (?:\s*\(.*?\))?: from index p on: the indices after the colon the regex
\* tries, in its order: behind each ")" of the line for an annotation, then
\* directly
ColonEnds(s, p) ==
    LET q == WsRunEnd(s, p)
        nl == {j \in q..Len(s) : s[j] = "\n"}
        lineEnd == IF nl = {} THEN Len(s) ELSE Min(nl) - 1
        closers == IF q <= Len(s) /\ s[q] = "("
                   THEN {r \in (q + 1)..lineEnd : s[r] = ")" /\ r < Len(s) /\ s[r + 1] = ":"}
                   ELSE {}
    IN  [closing |-> {r + 2 : r \in closers},
         direct |-> IF p <= Len(s) /\ s[p] = ":" THEN {p + 1} ELSE {}]

\* group 1 of the budget pattern matched at index i, <<>> when it does not
\* match there
BudgetMatchAt(alts, s, ls, i) ==
    LET n == AltLenAt(ls, alts, i, 1)
        ends == ColonEnds(s, i + n)
        good(C) == {c \in C : CaptureAt(s, ls, c) # <<>>}
    IN  IF n = 0 THEN <<>>
        ELSE IF good(ends.closing) # {} THEN CaptureAt(s, ls, Min(good(ends.closing)))
        ELSE IF good(ends.direct) # {} THEN CaptureAt(s, ls, Min(good(ends.direct)))
        ELSE <<>>

\* a search that returns the last match of the budget pattern
BudgetSearchLast(alts, s) ==
    LET ls == LowerStr(s)
        hits == {i \in 1..Len(s) : BudgetMatchAt(alts, s, ls, i) # <<>>}
    IN  IF hits = {} THEN <<>> ELSE BudgetMatchAt(alts, s, ls, Max(hits))

\* re.search(pattern, text, re.IGNORECASE) for a budget pattern: group 1 of
\* the leftmost match as <<first, last>> indices, <<>> for no match
BudgetSearch(alts, s) ==
    LET ls == LowerStr(s)
        hits == {i \in 1..Len(s) : BudgetMatchAt(alts, s, ls, i) # <<>>}
    IN  IF hits = {} THEN <<>> ELSE BudgetMatchAt(alts, s, ls, Min(hits))

\* the label alternations of budget_patterns, with their keys
budget_patterns ==
    <<<<<<KostnadSv, KostnadEn>>, Kostnad>>, <<<<BidragSv, BidragEn>>, Bidrag>>>>

RECURSIVE ExtractBudget(_, _, _)
\* the loop over budget_patterns, from the k-th on
ExtractBudget(t, k, data) ==
    IF k > Len(budget_patterns) THEN data
    ELSE LET match == BudgetSearch(budget_patterns[k][1], t)
         IN  ExtractBudget(t, k + 1,
                 IF match # <<>>
                 THEN Put(data, budget_patterns[k][2], Strip(SubSeq(t, match[1], match[2])))
                 ELSE data)

\* a dictionary created with the six section keys only, a cost key being
\* added when its label is found
SectionData == [k \in 1..Len(SectionKeys) |-> <<SectionKeys[k], <<>>>>]

\* a dictionary created with a placeholder in place of the empty string
PlaceholderData == [k \in 1..Len(DataKeys) |-> <<DataKeys[k], <<"-">>>>]

\* data as it is created: every key with the empty string
EmptyData == [k \in 1..Len(DataKeys) |-> <<DataKeys[k], <<>>>>]

extract_project_data(t) ==
    ExtractBudget(t, 1, ExtractSections(t, section_positions(t), 1, EmptyData))

-----------------------------------------------------------------------------
(* The extractor called on one record text.                                *)

\* ": x ,y\n"
ContentComma ==
    <<":", " ", "x", " ", ",", "y", "\n">>

\* "\n(bullet) a-b  c "
ContentBullet ==
    <<"\n", BlackCircle, " ", "a", "-", "b", " ", " ", "c", " ">>

\* the pieces record texts are built from: headers of three fields, the
\* budget header, and two contents
DataChunks == {TitelEn, MalEn, SummaryUpper, BudgetEndEn, ContentComma, ContentBullet}

DataTexts == {Concat(cs) : cs \in SeqsUpTo(DataChunks, MaxDataChunks)}

InitData ==
    /\ pc = "start"
    /\ text \in DataTexts
    /\ ret = None
    /\ Idle

DataCall ==
    /\ pc = "start"
    /\ ret' = extract_project_data(text)
    /\ ret2' = section_positions(text)
    /\ pc' = "done"
    /\ UNCHANGED <<text, section, raised, pages, page_num, all_projects, df, st_errors, excel_data, max_length, response, selected_fields, files>>

NextData == DataCall

SpecData == InitData /\ [][NextData]_vars

\* C2: the offset recorded for each located field is the offset of the last
\* occurrence in the text of any of its header phrases.
C2_LastOccurrenceRecorded ==
    pc = "done" =>
        \A k \in 1..Len(ret2) :
            ret2[k][1] = Max(MatchStarts(locator_pattern(ret2[k][2]), text))

\* C6: every stored free-text section value is a fixed point of clean_text.
C6_SectionValuesNormalized ==
    pc = "done" =>
        \A k \in 1..Len(SectionKeys) :
            clean_text(Get(ret, SectionKeys[k])) = Get(ret, SectionKeys[k])

\* the header phrases of the eight fields, in canonical order
CanonicalHeaders ==
    [k \in 1..Len(DataKeys) |->
        IF k <= Len(SectionKeys) THEN HeaderAlts(SectionKeys[k])
        ELSE budget_patterns[k - Len(SectionKeys)][1]]

\* the characters a field value can be made of: those of the text, and the
\* "k. " that numbers a bulleted line
ValueChars(t) ==
    {t[i] : i \in 1..Len(t)} \cup {DigitChars[d] : d \in 1..Len(DigitChars)} \cup {".", " "}

\* v is a str derived from the text t
IsStr(v, t) == \A i \in 1..Len(v) : v[i] \in ValueChars(t)

\* no header phrase (no label) of the k-th field occurs in the text
HeaderAbsent(k, t) == MatchStarts(Pattern(CanonicalHeaders[k], FALSE), t) = {}

\* C16: the mapping returned has exactly the eight base keys, every value is
\* a string, and a field whose header or label does not occur in the text
\* has the empty string.
C16_EightKeysDefaultEmpty ==
    pc = "done" =>
        /\ Keys(ret) = DataKeys
        /\ \A k \in 1..Len(DataKeys) :
               /\ IsStr(Get(ret, DataKeys[k]), text)
               /\ HeaderAbsent(k, text) => Get(ret, DataKeys[k]) = <<>>

\* "Project title: x ,y\nTotal budgeted": the title is found, the other
\* seven fields keep the empty string
C16_Witness ==
    /\ pc = "done"
    /\ text = TitelEn \o ContentComma \o BudgetEndEn
    /\ Get(ret, Titel) = <<"x", " ", ",", "y">>
    /\ \A k \in 1..Len(DataKeys) : DataKeys[k] # Titel => Get(ret, DataKeys[k]) = <<>>

\* C17: the located positions are (offset, field) pairs in strictly ascending
\* offset order, one pair for each free-text field whose header occurs in the
\* text, at an occurrence of that header, none for an absent field, and the
\* step raises nothing.
C17_PositionsSortedDistinct ==
    pc = "done" =>
        /\ raised = FALSE
        /\ \A k \in 1..(Len(ret2) - 1) : ret2[k][1] < ret2[k + 1][1]
        /\ \A k \in 1..Len(ret2) :
               ret2[k][1] \in MatchStarts(locator_pattern(ret2[k][2]), text)
        /\ \A j \in 1..Len(SectionKeys) :
               Cardinality({k \in 1..Len(ret2) : ret2[k][2] = SectionKeys[j]})
                   = IF HeaderAbsent(j, text) THEN 0 ELSE 1

\* "Objective for the project: x ,y\nProject title": the objectives header
\* comes first in the text and first in the sequence, the summary is absent
C17_Witness ==
    /\ pc = "done"
    /\ text = MalEn \o ContentComma \o TitelEn
    /\ ret2 = <<<<0, Mal>>, <<Len(MalEn) + Len(ContentComma), Titel>>>>

\* the place of a field in the canonical order
CanonicalRank(sec) == CHOOSE j \in 1..Len(SectionKeys) : SectionKeys[j] = sec

\* the header pattern of the canonical successor of a field: the next field's
\* phrases, the budget header behind the last free-text field
SuccessorHeader(sec) ==
    IF CanonicalRank(sec) < Len(SectionKeys)
    THEN Pattern(HeaderAlts(SectionKeys[CanonicalRank(sec) + 1]), FALSE)
    ELSE Pattern(<<BudgetEndSv, BudgetEndEn>>, FALSE)

\* the offsets after the start boundary of a field at which the pattern
\* matches
HeadersAfter(t, sec, pattern) ==
    {e \in MatchStarts(pattern, t) : e > StartBoundary(t, sec)}

\* the value a found field gets when its content ends at the first of the
\* offsets given: the empty string when there is none or the content is
\* blank, the cleaned content otherwise
ValueUpTo(t, sec, ends) ==
    IF ends = {} THEN <<>>
    ELSE IF Strip(Slice(t, StartBoundary(t, sec), Min(ends))) = <<>> THEN <<>>
    ELSE SectionValue(sec, Strip(Slice(t, StartBoundary(t, sec), Min(ends))))

\* C22: a found field is sliced up to the header of its canonical successor,
\* whichever field was found next in the text, except the found field with
\* the greatest offset, which is sliced up to the budget-section header.
C22_EndPatternKeyedByField ==
    pc = "done" =>
        \A k \in 1..Len(ret2) :
            Get(ret, ret2[k][2]) =
                ValueUpTo(text, ret2[k][2],
                    HeadersAfter(text, ret2[k][2],
                        IF k < Len(ret2) THEN SuccessorHeader(ret2[k][2])
                        ELSE Pattern(<<BudgetEndSv, BudgetEndEn>>, FALSE)))

\* "Objective for the project: x ,y\nProject titleSUMMARY": the title is
\* found next after the objectives, whose content yet runs up to the header
\* of the summary, the canonical successor
C22_Witness ==
    /\ pc = "done"
    /\ text = MalEn \o ContentComma \o TitelEn \o SummaryUpper
    /\ Len(ret2) = 3 /\ ret2[1][2] = Mal /\ ret2[2][2] = Titel
    /\ Get(ret, Mal) = <<"x", " ", ",", "y", "\n">> \o TitelEn

\* C25: a found field that is not the last found one gets the empty string
\* whenever the header of its canonical successor does not occur after its
\* start boundary, whatever other header occurs there.
C25_NoSuccessorHeaderEmpty ==
    pc = "done" =>
        \A k \in 1..(Len(ret2) - 1) :
            HeadersAfter(text, ret2[k][2], SuccessorHeader(ret2[k][2])) = {}
                => Get(ret, ret2[k][2]) = <<>>

\* "Objective for the project: x ,y\nProject title: x ,y\n": the header of
\* the title follows the content of the objectives, the header of the summary
\* does not occur, and the objectives are empty
C25_Witness ==
    /\ pc = "done"
    /\ text = MalEn \o ContentComma \o TitelEn \o ContentComma
    /\ ret2[1][2] = Mal /\ Len(ret2) = 2
    /\ HeadersAfter(text, Mal, locator_pattern(Titel)) # {}
    /\ HeadersAfter(text, Mal, SuccessorHeader(Mal)) = {}
    /\ Get(ret, Mal) = <<>>

-----------------------------------------------------------------------------
(* The extractor called on the objectives field: its header, a colon,      *)
(* content built from bullets, words and line breaks, and the header of    *)
(* the summary behind it.                                                  *)

FieldPieces == {<<"-", " ">>, <<"a", " ">>, <<"a">>, <<"\n">>, <<BlackCircle>>}

FieldTexts ==
    {MalEn \o <<":">> \o Concat(cs) \o SummaryUpper : cs \in SeqsUpTo(FieldPieces, MaxFieldPieces)}

InitField ==
    /\ pc = "start"
    /\ text \in FieldTexts
    /\ ret = None
    /\ Idle

NextField == DataCall

SpecField == InitField /\ [][NextField]_vars

\* no line of v is empty or blank, begins or ends with whitespace, or holds
\* two whitespace characters in a row
LinesClean(v) ==
    \A l \in {Split(v, "\n")} :
        \A n \in 1..Len(l) :
            /\ l[n] # <<>>
            /\ l[n][1] \notin Whitespace /\ l[n][Len(l[n])] \notin Whitespace
            /\ \A i \in 1..(Len(l[n]) - 1) :
                   ~(l[n][i] \in Whitespace /\ l[n][i + 1] \in Whitespace)

\* C28: each free-text field value is empty or made of lines none of which
\* is blank, begins or ends with whitespace, or holds two whitespace
\* characters in a row.
C28_FreeTextLinesClean ==
    pc = "done" =>
        \A k \in 1..Len(SectionKeys) :
            Get(ret, SectionKeys[k]) = <<>> \/ LinesClean(Get(ret, SectionKeys[k]))

-----------------------------------------------------------------------------
(* The extractor called on a text of budget lines.                         *)

\* "TOTAL BUDGETED COST"
KostnadUpper ==
    <<"T", "O", "T", "A", "L", " ", "B", "U", "D", "G", "E", "T", "E", "D",
      " ", "C", "O", "S", "T">>

\* ": 1 500 000 SEK"
ValueSek ==
    <<":", " ", "1", " ", "5", "0", "0", " ", "0", "0", "0", " ", "S", "E",
      "K">>

\* ":7"
ValueSeven ==
    <<":", "7">>

\* " (x): 2,5 msek\n"
ValueAnnotated ==
    <<" ", "(", "x", ")", ":", " ", "2", ",", "5", " ", "m", "s", "e", "k",
      "\n">>

\* "1 500 000 SEK"
AmountSek ==
    <<"1", " ", "5", "0", "0", " ", "0", "0", "0", " ", "S", "E", "K">>

BudgetChunks ==
    {BidragSv, KostnadUpper, ValueSek, ValueSeven, ValueAnnotated, <<":">>, <<" ">>, <<"x">>}

BudgetTexts == {Concat(cs) : cs \in SeqsUpTo(BudgetChunks, MaxBudgetChunks)}

InitBudget ==
    /\ pc = "start"
    /\ text \in BudgetTexts
    /\ ret = None
    /\ Idle

BudgetCall ==
    /\ pc = "start"
    /\ ret' = extract_project_data(text)
    /\ ret2' = section_positions(text)
    /\ pc' = "done"
    /\ UNCHANGED <<text, section, raised, pages, page_num, all_projects, df, st_errors, excel_data, max_length, response, selected_fields, files>>

NextBudget == BudgetCall

SpecBudget == InitBudget /\ [][NextBudget]_vars

\* the indices right after a colon that closes the label ending before
\* index p: the colon follows the label directly, or follows an annotation
\* in parentheses that begins, after optional whitespace, behind the label
\* and ends on the same line
LabelColons(t, p) ==
    LET q == WsRunEnd(t, p)
    IN  {c \in (p + 1)..(Len(t) + 1) :
            /\ t[c - 1] = ":"
            /\ \/ c - 1 = p
               \/ /\ q < c - 2 /\ t[q] = "(" /\ t[c - 2] = ")"
                  /\ \A j \in q..(c - 2) : t[j] # "\n"}

\* the numeric run that begins at index c, with the unit that follows it:
\* the index after it (c itself when no run begins there)
AmountEnd(t, lt, c) ==
    LET e == Min({j \in c..(Len(t) + 1) : j > Len(t) \/ t[j] \notin NumberClass})
    IN  IF e = c THEN c ELSE e + AltLenAt(lt, UnitAlts, e, 1)

\* the amounts the labels of one cost field introduce: <<index of the label,
\* index after the colon>> wherever a numeric run follows the colon
Amounts(t, alts) ==
    LET lt == LowerStr(t)
        labels == {i \in 1..Len(t) : AltLenAt(lt, alts, i, 1) > 0}
    IN  UNION {{<<i, c>> : c \in {c \in LabelColons(t, i + AltLenAt(lt, alts, i, 1)) :
                                     AmountEnd(t, lt, c) > c}} : i \in labels}

\* the value of a cost field: the trimmed amount of the first label that
\* introduces one, the empty string without any
ExpectedCost(t, alts) ==
    LET A == Amounts(t, alts)
    IN  IF A = {} THEN <<>>
        ELSE LET first == CHOOSE a \in A :
                              \A b \in A : a[1] < b[1] \/ (a[1] = b[1] /\ a[2] <= b[2])
             IN  Strip(SubSeq(t, first[2], AmountEnd(t, LowerStr(t), first[2]) - 1))

\* C10: each cost field holds the trimmed numeric run, with its optional
\* SEK or MSEK suffix, that follows the first match of the field's label and
\* colon, and the empty string when there is no such match.
C10_CostFields ==
    pc = "done" =>
        \A k \in 1..Len(budget_patterns) :
            Get(ret, budget_patterns[k][2]) = ExpectedCost(text, budget_patterns[k][1])

\* "Totalt sokt bidrag: 1 500 000 SEK", after an earlier label without an
\* amount, gives the field the value "1 500 000 SEK".
C10_Witness ==
    /\ pc = "done"
    /\ text = BidragSv \o <<"x">> \o BidragSv \o ValueSek
    /\ Get(ret, Bidrag) = AmountSek
    /\ Get(ret, Kostnad) = <<>>

-----------------------------------------------------------------------------
(* The extractor called on one cost label, its colon, and what a PDF may   *)
(* put behind it: digits, separators, line breaks, a unit, other text.     *)

\* "SEK"
UnitSek == <<"S", "E", "K">>

CostPieces == {<<" ">>, <<"\n">>, <<"5">>, <<",">>, <<"x">>, UnitSek}

CostTexts == {KostnadEn \o <<":">> \o Concat(cs) : cs \in SeqsUpTo(CostPieces, MaxCostPieces)}

InitCost ==
    /\ pc = "start"
    /\ text \in CostTexts
    /\ ret = None
    /\ Idle

NextCost == BudgetCall

SpecCost == InitCost /\ [][NextCost]_vars

\* v is a numeric-with-unit string: a run of digits, spaces, commas and
\* periods on one line, with a digit in it, then optionally SEK or MSEK (in
\* either case), and no whitespace at either end
NumericWithUnit(v) ==
    /\ v = Strip(v)
    /\ \A i \in 1..Len(v) : v[i] # "\n"
    /\ \E n \in 1..Len(v) :
           /\ \A i \in 1..n : v[i] \in Digits \cup {" ", ",", "."}
           /\ \E i \in 1..n : v[i] \in Digits
           /\ \/ n = Len(v)
              \/ \E u \in 1..Len(UnitAlts) :
                     LowerStr(SubSeq(v, n + 1, Len(v))) = LowerStr(UnitAlts[u])

\* C21: each cost field value is empty or a single-line numeric-with-unit
\* string with at least one digit.
C21_CostNumericWithUnit ==
    pc = "done" =>
        \A k \in 1..Len(budget_patterns) :
            \/ Get(ret, budget_patterns[k][2]) = <<>>
            \/ NumericWithUnit(Get(ret, budget_patterns[k][2]))

-----------------------------------------------------------------------------
(* The extractor called on a well-formed record: the eight canonical       *)
(* headers once each, in canonical order, each followed by content.        *)

\* the phrase of field k in language lang (1 Swedish, 2 English); the
\* objective field has a second phrase in each language
HeaderPhrase(k, lang, second) ==
    IF Len(CanonicalHeaders[k]) = 4
    THEN CanonicalHeaders[k][2 * (lang - 1) + (IF second THEN 2 ELSE 1)]
    ELSE CanonicalHeaders[k][lang]

\* what follows a free-text header: separator and content
FreeTextBodies == {ContentComma, ContentBullet}

\* what follows a cost label: colon and amount
AmountBodies == {ValueSek, ValueSeven, ValueAnnotated}

\* the record with the given phrases, free-text body and amounts
WellFormedRecord(lang, second, body, cost, grant) ==
    Concat([k \in 1..Len(DataKeys) |->
               HeaderPhrase(k, lang[k], second)
                   \o (IF k <= Len(SectionKeys) THEN body
                       ELSE IF k = Len(SectionKeys) + 1 THEN cost ELSE grant)])

\* the language of each field: a record switches language at most
\* MaxLanguageSwitches times from one field to the next
LanguageChoices ==
    {lang \in [1..Len(DataKeys) -> 1..2] :
        Cardinality({k \in 2..Len(DataKeys) : lang[k] # lang[k - 1]}) <= MaxLanguageSwitches}

WellFormedRecords ==
    {WellFormedRecord(lang, second, body, cost, grant) :
        lang \in LanguageChoices, second \in BOOLEAN, body \in FreeTextBodies,
        cost \in AmountBodies, grant \in AmountBodies}

InitRecord ==
    /\ pc = "start"
    /\ text \in WellFormedRecords
    /\ ret = None
    /\ Idle

RecordCall ==
    /\ pc = "start"
    /\ ret' = extract_project_data(text)
    /\ ret2' = section_positions(text)
    /\ pc' = "done"
    /\ UNCHANGED <<text, section, raised, pages, page_num, all_projects, df, st_errors, excel_data, max_length, response, selected_fields, files>>

NextRecord == RecordCall

SpecRecord == InitRecord /\ [][NextRecord]_vars

RawContent(t, sec) ==
    Join(StrippedLines(Split(
        Strip(Slice(t, StartBoundary(t, sec),
                    Min(HeadersAfter(t, sec, SuccessorHeader(sec))))), "\n")), "\n")

\* C23: bullets become ordinals in the objectives and the summary only: the
\* other four free-text fields hold their content with its bullet glyphs and
\* without ordinal labels, and the partners decomposed from the stored
\* "other parties" value are those of its content in the text.
C23_BulletsNumberedInTwoFieldsOnly ==
    pc = "done" =>
        /\ \A k \in 1..Len(SectionKeys) :
               Get(ret, SectionKeys[k]) =
                   IF SectionKeys[k] \in {Mal, Sammanfattning}
                   THEN convert_bullets_to_numbers(RawContent(text, SectionKeys[k]))
                   ELSE RawContent(text, SectionKeys[k])
        /\ extract_project_partners(Get(ret, Ovriga))
               = extract_project_partners(RawContent(text, Ovriga))

\* a record whose fields all hold the bulleted line "(bullet) a-b  c": the
\* objectives become "1. ab c", the title keeps "(bullet) a-b c", and the
\* other parties decompose into "a" and "b c"
C23_Witness ==
    /\ pc = "done"
    /\ Get(ret, Mal) = <<"1", ".", " ", "a", "b", " ", "c">>
    /\ Get(ret, Titel) = <<BlackCircle, " ", "a", "-", "b", " ", "c">>
    /\ Get(ret, Ovriga) = <<BlackCircle, " ", "a", "-", "b", " ", "c">>
    /\ extract_project_partners(Get(ret, Ovriga)) = <<<<"a">>, <<"b", " ", "c">>>>

-----------------------------------------------------------------------------
(* convert_pdf_to_excel                                                    *)

\* "Projektsammanfattning"
MarkerSv ==
    <<"P", "r", "o", "j", "e", "k", "t", "s", "a", "m", "m", "a", "n", "f",
      "a", "t", "t", "n", "i", "n", "g">>

\* "Project summary"
MarkerEn ==
    <<"P", "r", "o", "j", "e", "c", "t", " ", "s", "u", "m", "m", "a", "r",
      "y">>

\* "Projektpart"
PartnerPrefix ==
    <<"P", "r", "o", "j", "e", "k", "t", "p", "a", "r", "t">>

\* header in text: the literal occurs in the text, letter case respected
InText(header, t) ==
    \E i \in 1..(Len(t) - Len(header) + 1) : SubSeq(t, i, i + Len(header) - 1) = header

\* a gate that ignores letter case, as re.search with re.IGNORECASE would
HasMarkerAnyCase(t) == Search(Pattern(<<MarkerSv, MarkerEn>>, FALSE), t) # <<>>

\* any(header in text for header in ["Projektsammanfattning", "Project summary"])
HasMarker(t) == InText(MarkerSv, t) \/ InText(MarkerEn, t)

\* f"Projektpart {i}"
PartnerKey(i) == PartnerPrefix \o <<" ">> \o IntToStr(i)

\* col.startswith("Projektpart")
IsPartnerColumn(col) ==
    Len(col) >= Len(PartnerPrefix) /\ SubSeq(col, 1, Len(PartnerPrefix)) = PartnerPrefix

RECURSIVE ParseInt(_)
\* int(token) for a token of digits
ParseInt(token) ==
    IF token = <<>> THEN 0
    ELSE 10 * ParseInt(SubSeq(token, 1, Len(token) - 1))
             + (CHOOSE d \in 0..9 : DigitChars[d + 1] = token[Len(token)])

\* int(col.split()[-1])
PartnerIndex(col) ==
    LET c == Strip(col)
        ws == {i \in 1..Len(c) : c[i] \in Whitespace}
    IN  ParseInt(IF ws = {} THEN c ELSE SubSeq(c, Max(ws) + 1, Len(c)))

RECURSIVE AddPartnersFromZero(_, _, _)
\* an enumeration that starts at 0: for i, partner in enumerate(partners)
AddPartnersFromZero(project_data, partners, i) ==
    IF i > Len(partners) THEN project_data
    ELSE AddPartnersFromZero(Put(project_data, PartnerKey(i - 1), partners[i]), partners, i + 1)

RECURSIVE AddPartners(_, _, _)
\* for i, partner in enumerate(partners, 1): project_data[f"Projektpart {i}"] = partner
AddPartners(project_data, partners, i) ==
    IF i > Len(partners) THEN project_data
    ELSE AddPartners(Put(project_data, PartnerKey(i), partners[i]), partners, i + 1)

\* a record is kept whatever it holds
AlwaysData(project_data) == TRUE

\* any(value.strip() for value in project_data.values())
HasData(project_data) ==
    \E i \in 1..Len(project_data) : Strip(project_data[i][2]) # <<>>

\* the record of one eligible page, with its partner columns
PageRecord(t) ==
    LET project_data == extract_project_data(t)
    IN  AddPartners(project_data, extract_project_partners(Get(project_data, Ovriga)), 1)

RECURSIVE UnionKeys(_, _)
\* the columns of pd.DataFrame(records): the keys of the records in the order
\* of their first appearance
UnionKeys(records, cols) ==
    IF records = <<>> THEN cols
    ELSE LET ks == Keys(Head(records))
             have == {cols[i] : i \in 1..Len(cols)}
         IN  UnionKeys(Tail(records), cols \o SelectSeq(ks, LAMBDA k : k \notin have))

\* pd.DataFrame(records) for a list of dicts: a cell is the record's value,
\* NaN where the record has no such key
DataFrame(records) ==
    LET cols == UnionKeys(records, <<>>)
    IN  [columns |-> cols,
         rows |-> [r \in 1..Len(records) |->
                      [c \in {cols[i] : i \in 1..Len(cols)} |->
                          IF HasKey(records[r], c) THEN Get(records[r], c) ELSE NaN]]]

ColumnSet(frame) == {frame.columns[i] : i \in 1..Len(frame.columns)}

\* df[col_name] = "" for a column the frame does not have
AddEmptyColumn(frame, col_name) ==
    [columns |-> Append(frame.columns, col_name),
     rows |-> [r \in 1..Len(frame.rows) |->
                  [c \in ColumnSet(frame) \cup {col_name} |->
                      IF c = col_name THEN <<>> ELSE frame.rows[r][c]]]]

RECURSIVE FillColumns(_, _, _)
\* for i in range(1, max_partners + 1): if col_name not in df.columns: df[col_name] = ""
FillColumns(frame, i, max_partners) ==
    IF i > max_partners THEN frame
    ELSE FillColumns(IF PartnerKey(i) \in ColumnSet(frame) THEN frame
                     ELSE AddEmptyColumn(frame, PartnerKey(i)),
                     i + 1, max_partners)

\* df[columns]
SelectColumns(frame, columns) ==
    [columns |-> columns,
     rows |-> [r \in 1..Len(frame.rows) |->
                  [c \in {columns[i] : i \in 1..Len(columns)} |-> frame.rows[r][c]]]]

\* a count that stops one short of the highest partner index
MaxPartnersShort(frame) ==
    LET partner_columns == SelectSeq(frame.columns, IsPartnerColumn)
    IN  IF partner_columns = <<>> THEN 0
        ELSE Max({PartnerIndex(partner_columns[i]) : i \in 1..Len(partner_columns)}) - 1

\* max([int(col.split()[-1]) for col in partner_columns]) if partner_columns else 0
MaxPartners(frame) ==
    LET partner_columns == SelectSeq(frame.columns, IsPartnerColumn)
    IN  IF partner_columns = <<>> THEN 0
        ELSE Max({PartnerIndex(partner_columns[i]) : i \in 1..Len(partner_columns)})

\* the table built from the collected records
BuildFrame(records) ==
    LET frame == DataFrame(records)
        max_partners == MaxPartners(frame)
        filled == FillColumns(frame, 1, max_partners)
        base_columns == SelectSeq(filled.columns, LAMBDA col : ~IsPartnerColumn(col))
        partner_columns == [i \in 1..max_partners |-> PartnerKey(i)]
    IN  SelectColumns(filled, base_columns \o partner_columns)

-----------------------------------------------------------------------------
(* The converter run on one PDF, page by page.                             *)

\* a page with three partners
PageThree ==
    <<"P", "r", "o", "j", "e", "c", "t", " ", "s", "u", "m", "m", "a", "r",
      "y", "\n", "O", "t", "h", "e", "r", " ", "p", "r", "o", "j", "e",
      "c", "t", " ", "p", "a", "r", "t", "i", "e", "s", ":", " ",
      BlackCircle, " ", "A", " ", BlackCircle, " ", "B", " ", BlackCircle,
      " ", "C", "\n", "T", "o", "t", "a", "l", " ", "b", "u", "d", "g",
      "e", "t", "e", "d">>

\* a page with one partner
PageOne ==
    <<"P", "r", "o", "j", "e", "c", "t", " ", "s", "u", "m", "m", "a", "r",
      "y", "\n", "O", "t", "h", "e", "r", " ", "p", "r", "o", "j", "e",
      "c", "t", " ", "p", "a", "r", "t", "i", "e", "s", ":", " ", "A",
      "\n", "T", "o", "t", "a", "l", " ", "b", "u", "d", "g", "e", "t",
      "e", "d", " ", "c", "o", "s", "t", ":", " ", "5">>

\* a page with a title and no partner
PageTitle ==
    <<"P", "r", "o", "j", "e", "c", "t", " ", "s", "u", "m", "m", "a", "r",
      "y", "\n", "P", "r", "o", "j", "e", "c", "t", " ", "t", "i", "t",
      "l", "e", ":", " ", "T", "\n", "T", "o", "t", "a", "l", " ", "b",
      "u", "d", "g", "e", "t", "e", "d">>

\* a page with the marker and nothing to extract
PageCover ==
    <<"P", "r", "o", "j", "e", "c", "t", " ", "s", "u", "m", "m", "a", "r",
      "y", "\n">>

\* a page whose marker is written in lower case, with a title
PageLower ==
    <<"p", "r", "o", "j", "e", "c", "t", " ", "s", "u", "m", "m", "a", "r",
      "y", "\n", "P", "r", "o", "j", "e", "c", "t", " ", "t", "i", "t",
      "l", "e", ":", " ", "T", "\n", "T", "o", "t", "a", "l", " ", "b",
      "u", "d", "g", "e", "t", "e", "d">>

\* a page without marker and without any header
PagePlain ==
    <<"x", " ", ",", "y", "\n">>

\* a page without text: page.extract_text() gives None
PageBlank == None

PageTexts == {PageThree, PageOne, PageTitle, PageCover, PageLower, PagePlain, PageBlank}

\* the record of each page text of the model that is a str, computed once
project_data_of == [t \in PageTexts \ {None} |-> PageRecord(t)]

InitBatch ==
    /\ pc = "loop"
    /\ pages \in SeqsUpTo(PageTexts, MaxPages)
    /\ page_num = 1
    /\ all_projects = <<>>
    /\ df = NoFrame
    /\ st_errors = 0
    /\ excel_data = <<>>
    /\ text = None /\ section = None /\ ret = None /\ ret2 = None /\ raised = FALSE
    /\ max_length = 0 /\ response = None /\ selected_fields = <<>> /\ files = <<>>

\* one turn of the loop over pdf.pages; the gate on a page without text
\* raises TypeError, which the handler around the whole function turns into
\* st.error and return None
ProcessPage ==
    /\ pc = "loop"
    /\ page_num <= Len(pages)
    /\ text' = pages[page_num]
    /\ IF pages[page_num] = None
       THEN /\ st_errors' = st_errors + 1
            /\ df' = NoFrame
            /\ pc' = "returned"
            /\ UNCHANGED <<all_projects, page_num>>
       ELSE /\ all_projects' =
                  IF HasMarker(pages[page_num]) /\ HasData(project_data_of[pages[page_num]])
                  THEN Append(all_projects, project_data_of[pages[page_num]])
                  ELSE all_projects
            /\ page_num' = page_num + 1
            /\ UNCHANGED <<pc, df, st_errors>>
    /\ UNCHANGED <<section, ret, ret2, raised, pages, excel_data, max_length, response, selected_fields, files>>

\* after the loop, with the error message left out
FinishSilent ==
    /\ pc = "loop"
    /\ page_num > Len(pages)
    /\ df' = IF all_projects = <<>> THEN NoFrame ELSE BuildFrame(all_projects)
    /\ pc' = "returned"
    /\ UNCHANGED <<text, section, ret, ret2, raised, pages, page_num, all_projects,
                   st_errors, excel_data, max_length, response, selected_fields, files>>

\* after the loop: the error for an empty batch, or the table
Finish ==
    /\ pc = "loop"
    /\ page_num > Len(pages)
    /\ IF all_projects = <<>>
       THEN /\ st_errors' = st_errors + 1
            /\ df' = NoFrame
       ELSE /\ df' = BuildFrame(all_projects)
            /\ UNCHANGED st_errors
    /\ pc' = "returned"
    /\ UNCHANGED <<text, section, ret, ret2, raised, pages, page_num, all_projects, excel_data, max_length, response, selected_fields, files>>

\* df.to_excel(writer, index=False): the header row and one row per record,
\* a missing value written as an empty cell
to_excel(frame) ==
    <<frame.columns>> \o
        [r \in 1..Len(frame.rows) |->
            [c \in 1..Len(frame.columns) |->
                IF frame.rows[r][frame.columns[c]] = NaN THEN <<>>
                ELSE frame.rows[r][frame.columns[c]]]]

\* main after the button is pressed: the workbook is written only for a table
Main ==
    /\ pc = "returned"
    /\ excel_data' = IF df # NoFrame THEN to_excel(df) ELSE <<>>
    /\ pc' = "done"
    /\ UNCHANGED <<text, section, ret, ret2, raised, pages, page_num, all_projects, df, st_errors,
                   max_length, response, selected_fields, files>>

NextBatch == ProcessPage \/ Finish \/ Main

SpecBatch == InitBatch /\ [][NextBatch]_vars

\* C3: in the returned table every record has a value for every partner
\* column 1..max, and the value is the empty string in each partner column
\* beyond the record's own partner count.
C3_PartnerColumnsPadded ==
    (pc = "returned" /\ df # NoFrame) =>
        \A r \in 1..Len(df.rows) :
            \A i \in 1..MaxPartners(DataFrame(all_projects)) :
                /\ PartnerKey(i) \in DOMAIN df.rows[r]
                /\ df.rows[r][PartnerKey(i)] # NaN
                /\ ~HasKey(all_projects[r], PartnerKey(i)) => df.rows[r][PartnerKey(i)] = <<>>

\* the page text holds one of the two markers as a literal substring
Eligible(t) ==
    \E m \in {MarkerSv, MarkerEn} :
        \E i \in 1..Len(t) :
            /\ i + Len(m) - 1 <= Len(t)
            /\ \A k \in 1..Len(m) : t[i + k - 1] = m[k]

\* the fields of a record that are non-empty after trimming
NonEmptyFields(record) == {i \in 1..Len(record) : Strip(record[i][2]) # <<>>}

\* the records of the eligible pages that have a non-empty field, in page order
ExpectedRecords ==
    LET kept == SelectSeq(pages, LAMBDA p : p # None /\ Eligible(p)
                                              /\ NonEmptyFields(project_data_of[p]) # {})
    IN  [n \in 1..Len(kept) |-> project_data_of[kept[n]]]

\* the page holds no header phrase and no cost label
NoHeaders(t) == \A k \in 1..Len(DataKeys) : HeaderAbsent(k, t)

\* C12: a page without any canonical header is extracted with all eight base
\* fields empty, and no row of the batch is its record.
C12_NoHeadersNoRecord ==
    pc = "returned" =>
        \A n \in 1..Len(pages) :
            (pages[n] # None /\ NoHeaders(pages[n])) =>
                /\ \A k \in 1..Len(DataKeys) :
                       Get(extract_project_data(pages[n]), DataKeys[k]) = <<>>
                /\ \A r \in 1..Len(all_projects) :
                       all_projects[r] # project_data_of[pages[n]]
                /\ \A r \in 1..Len(df.rows) :
                       \E k \in 1..Len(DataKeys) : df.rows[r][DataKeys[k]] # <<>>

\* a PDF of a page without headers and a page with one partner: the table
\* has the one row of the second page
C12_Witness ==
    /\ pc = "returned"
    /\ pages = <<PagePlain, PageOne>>
    /\ Len(df.rows) = 1
    /\ df.rows[1][Ovriga] = <<"A">>

\* C13: the rows of a returned table are the records of the eligible pages
\* that have a field non-empty after trimming, one row each, in page order.
C13_RowsAreNonEmptyRecords ==
    (pc = "returned" /\ df # NoFrame) =>
        \A expected \in {ExpectedRecords} :
            /\ Len(df.rows) = Len(expected)
            /\ \A r \in 1..Len(df.rows) :
                   /\ NonEmptyFields(expected[r]) # {}
                   /\ \A i \in 1..Len(expected[r]) :
                          df.rows[r][expected[r][i][1]] = expected[r][i][2]

\* a PDF of a page with three partners, a cover page and a page with a
\* title: two rows, the cover page left out, the order of the pages kept
C13_Witness ==
    /\ pc = "returned"
    /\ pages = <<PageThree, PageCover, PageTitle>>
    /\ Len(df.rows) = 2
    /\ df.rows[1][PartnerKey(3)] = <<"C">>
    /\ df.rows[2][Titel] = <<"T">>

\* C14: when no page yields a record with a non-empty field, the run shows an
\* error, returns no table, raises nothing, and main writes no workbook.
C14_EmptyBatchReported ==
    (pc = "done" /\ ExpectedRecords = <<>>) =>
        /\ st_errors >= 1
        /\ df = NoFrame
        /\ raised = FALSE
        /\ excel_data = <<>>

\* a PDF of a cover page and a page without marker, run to the end of main
C14_Witness ==
    /\ pc = "done"
    /\ pages = <<PageCover, PageLower>>
    /\ st_errors = 1
    /\ df = NoFrame
    /\ excel_data = <<>>

\* C15: a turn of the loop adds a record exactly when the page holds a marker
\* as a literal, case-sensitive substring (and its record has a non-empty
\* field); a page without it, or with it in another letter case, adds none.
C15_GateIsLiteralMarker ==
    [][(pc = "loop" /\ page_num <= Len(pages) /\ pages[page_num] # None) =>
          /\ ~Eligible(pages[page_num]) => all_projects' = all_projects
          /\ (Eligible(pages[page_num])
                 /\ NonEmptyFields(project_data_of[pages[page_num]]) # {})
                => all_projects' = Append(all_projects, project_data_of[pages[page_num]])]_vars

\* a page titled under a lower-case marker, then a page with one partner: after
\* both turns the batch holds the record of the second page only
C15_Witness ==
    /\ pc = "loop"
    /\ pages = <<PageLower, PageOne>>
    /\ page_num = 3
    /\ Len(all_projects) = 1
    /\ Get(all_projects[1], Titel) = <<>>
    /\ Get(all_projects[1], Ovriga) = <<"A">>

\* C18: a page that fails does not cost the records of the other pages: a
\* table is returned whenever some page yields a record with a non-empty
\* field, with one row for each such page.
C18_PageFailureLocal ==
    pc = "returned" =>
        \A expected \in {ExpectedRecords} :
            IF expected = <<>> THEN df = NoFrame
            ELSE df # NoFrame /\ Len(df.rows) = Len(expected)

\* the number of partner columns of a record
PartnerCount(record) == Cardinality({i \in 1..Len(record) : IsPartnerColumn(record[i][1])})

\* C20: the columns of the returned table are the eight base fields followed
\* by the partner columns 1..max in ascending order, max being the largest
\* partner count of a record, and they are the union of the records' fields.
C20_ColumnsBaseThenPartners ==
    (pc = "returned" /\ df # NoFrame) =>
        \A max \in {Max({PartnerCount(all_projects[r]) : r \in 1..Len(all_projects)})} :
            /\ df.columns = DataKeys \o [i \in 1..max |-> PartnerKey(i)]
            /\ {df.columns[c] : c \in 1..Len(df.columns)}
                   = UNION {{all_projects[r][i][1] : i \in 1..Len(all_projects[r])} :
                               r \in 1..Len(all_projects)}

\* a PDF of a page with one partner and a page with three: eleven columns,
\* the last one "Projektpart 3"
C20_Witness ==
    /\ pc = "returned"
    /\ pages = <<PageOne, PageThree>>
    /\ Len(df.columns) = Len(DataKeys) + 3
    /\ df.columns[Len(DataKeys) + 3] = PartnerKey(3)

\* C27: the partner fields of every collected record are exactly
\* "Projektpart 1" .. "Projektpart k", k being the number of items decomposed
\* from the record's "other parties" value, and a record whose "other
\* parties" value is empty has no partner field.
C27_PartnerFieldsNumbered ==
    \A r \in 1..Len(all_projects) :
        \A k \in {Len(extract_project_partners(Get(all_projects[r], Ovriga)))} :
            /\ {all_projects[r][i][1] : i \in {i \in 1..Len(all_projects[r]) :
                                                  IsPartnerColumn(all_projects[r][i][1])}}
                   = {PartnerKey(i) : i \in 1..k}
            /\ PartnerCount(all_projects[r]) = k
            /\ Get(all_projects[r], Ovriga) = <<>> => PartnerCount(all_projects[r]) = 0

\* the record of the page with three partners has "Projektpart 1" to
\* "Projektpart 3", that of the page with a title only has none
C27_Witness ==
    /\ pages = <<PageThree, PageTitle>>
    /\ Len(all_projects) = 2
    /\ Keys(all_projects[1]) = DataKeys \o <<PartnerKey(1), PartnerKey(2), PartnerKey(3)>>
    /\ Get(all_projects[2], Ovriga) = <<>>
    /\ Keys(all_projects[2]) = DataKeys

-----------------------------------------------------------------------------
(* format_long_text (vinnova_calls.py, vinnova_financed_activities.py)     *)

RECURSIVE SplitWords(_)
\* text.split(): the words between runs of whitespace
SplitWords(s) ==
    IF LStrip(s) = <<>> THEN <<>>
    ELSE LET t == LStrip(s)
             ws == {i \in 1..Len(t) : t[i] \in Whitespace}
             e == IF ws = {} THEN Len(t) + 1 ELSE Min(ws)
         IN  <<SubSeq(t, 1, e - 1)>> \o SplitWords(SubSeq(t, e, Len(t)))

RECURSIVE WrapWords(_, _, _, _, _)
\* the loop over words and the flush of the last line behind it
WrapWords(words, lines, current_line, current_length, width) ==
    IF words = <<>>
    THEN IF current_line # <<>> THEN Append(lines, Join(current_line, " ")) ELSE lines
    ELSE IF current_length + Len(Head(words)) + 1 <= width
         THEN WrapWords(Tail(words), lines, Append(current_line, Head(words)),
                        current_length + Len(Head(words)) + 1, width)
         ELSE WrapWords(Tail(words), Append(lines, Join(current_line, " ")),
                        <<Head(words)>>, Len(Head(words)), width)

\* a value that is no str is returned as it is
format_long_text(t, width) ==
    IF t = None THEN t
    ELSE Join(WrapWords(SplitWords(t), <<>>, <<>>, 0, width), "\n")

-----------------------------------------------------------------------------
(* The formatter called on one text and one width.                         *)

FormatAlphabet == {"a", "b", " ", "\n"}

FormatInputs == SeqsUpTo(FormatAlphabet, MaxFormatLen) \cup {None}

InitFormat ==
    /\ pc = "start"
    /\ text \in FormatInputs
    /\ max_length \in 0..MaxWidth
    /\ ret = None
    /\ section = None /\ ret2 = None /\ raised = FALSE
    /\ pages = <<>> /\ page_num = 0 /\ all_projects = <<>>
    /\ df = NoFrame /\ st_errors = 0 /\ excel_data = <<>>
    /\ response = None /\ selected_fields = <<>> /\ files = <<>>

FormatCall ==
    /\ pc = "start"
    /\ ret' = format_long_text(text, max_length)
    /\ pc' = "done"
    /\ UNCHANGED <<text, section, ret2, raised, pages, page_num, all_projects, df, st_errors, excel_data, max_length, response, selected_fields, files>>

NextFormat == FormatCall

SpecFormat == InitFormat /\ [][NextFormat]_vars

\* C29: the words of the output are the words of the input in their order,
\* no output line is empty when the input has a word, and an output line
\* longer than max_length is a single word.
C29_WrapsAtWordBoundaries ==
    (pc = "done" /\ text # None) =>
        /\ SplitWords(ret) = SplitWords(text)
        /\ \A l \in {Split(ret, "\n")} :
               /\ SplitWords(text) # <<>> => \A n \in 1..Len(l) : l[n] # <<>>
               /\ \A n \in 1..Len(l) :
                      Len(l[n]) > max_length => SplitWords(l[n]) = <<l[n]>>

-----------------------------------------------------------------------------
(* VinnovaAPI.get_calls / get_financed_activities and                      *)
(* extract_specific_fields (vinnova_calls.py, vinnova_financed_activities.py) *)

\* "titel"
field_titel == <<"t", "i", "t", "e", "l">>

\* "titelEng"
field_titelEng == <<"t", "i", "t", "e", "l", "E", "n", "g">>

\* "beskrivning"
field_beskrivning == <<"b", "e", "s", "k", "r", "i", "v", "n", "i", "n", "g">>

\* "beskrivningEng"
field_beskrivningEng == <<"b", "e", "s", "k", "r", "i", "v", "n", "i", "n", "g", "E", "n", "g">>

\* "oppningsdatum"
field_oppningsdatum == <<"o", "p", "p", "n", "i", "n", "g", "s", "d", "a", "t", "u", "m">>

\* "stangningsdatum"
field_stangningsdatum == <<"s", "t", "a", "n", "g", "n", "i", "n", "g", "s", "d", "a", "t", "u", "m">>

\* "beslut"
field_beslut == <<"b", "e", "s", "l", "u", "t">>

\* "diarienummer"
field_diarienummer == <<"d", "i", "a", "r", "i", "e", "n", "u", "m", "m", "e", "r">>

\* "message"
field_message == <<"m", "e", "s", "s", "a", "g", "e">>

\* selected_fields of vinnova_calls.py
selected_fields_calls ==
    <<field_titel, field_titelEng, field_beskrivning, field_beskrivningEng,
      field_oppningsdatum, field_stangningsdatum>>

\* selected_fields of vinnova_financed_activities.py
selected_fields_financed ==
    <<field_titel, field_titelEng, field_beskrivning, field_beskrivningEng, field_beslut>>

\* the fields passed through format_long_text
long_text_fields == {field_beskrivning, field_beskrivningEng, field_titel, field_titelEng}

\* the default of max_length
DefaultMaxLength == 80

\* the value None as data: what the fetch returns on failure, and the JSON
\* document null
NoneData == [kind |-> "NoneType", value |-> <<>>]

\* the classes an exception is an instance of
ExceptionClasses(exc) ==
    CASE exc = "ConnectionError" -> {"ConnectionError", "RequestException", "Exception"}
      [] exc = "Timeout"         -> {"Timeout", "RequestException", "Exception"}
      [] exc = "HTTPError"       -> {"HTTPError", "RequestException", "Exception"}
      [] exc = "JSONDecodeError" -> {"JSONDecodeError", "RequestException", "Exception"}
      [] exc = "TypeError"       -> {"TypeError", "Exception"}

\* response.raise_for_status(): HTTPError for a status from 400 to 599
raise_for_status(status_code) ==
    IF 400 <= status_code /\ status_code < 600 THEN "HTTPError" ELSE "none"

\* a handler for HTTP errors only
HandlesHTTPErrorOnly(exc) == "HTTPError" \in ExceptionClasses(exc)

\* except requests.exceptions.RequestException
HandlesRequestException(exc) == "RequestException" \in ExceptionClasses(exc)

\* except json.JSONDecodeError
HandlesJSONDecodeError(exc) == "JSONDecodeError" \in ExceptionClasses(exc)

\* the exception the outer try block meets, "none" when it runs through:
\* requests.get raises, or raise_for_status does, or response.json() raises
\* an error its own handler does not take
OuterException(resp) ==
    IF resp.raises # "none" THEN resp.raises
    ELSE IF raise_for_status(resp.status_code) # "none" THEN raise_for_status(resp.status_code)
    ELSE IF resp.body.kind = "invalid" /\ ~HandlesJSONDecodeError("JSONDecodeError")
         THEN "JSONDecodeError"
    ELSE "none"

\* get_calls, get_financed_activities: the value returned and the exception
\* that leaves the method ("none" when it returns)
get_calls(resp) ==
    IF OuterException(resp) # "none"
    THEN IF HandlesRequestException(OuterException(resp))
         THEN [value |-> NoneData, exception |-> "none"]
         ELSE [value |-> NoneData, exception |-> OuterException(resp)]
    ELSE IF resp.body.kind = "invalid" THEN [value |-> NoneData, exception |-> "none"]
    ELSE [value |-> resp.body, exception |-> "none"]

\* for item in data: the elements of a list, the keys of a dict
Iterate(data) ==
    IF data.kind = "list"
    THEN [i \in 1..Len(data.value) |-> [kind |-> "dict", value |-> data.value[i]]]
    ELSE [i \in 1..Len(data.value) |-> [kind |-> "str", value |-> data.value[i][1]]]

\* field in item: a key of a dict, a substring of a str
FieldIn(field, item) ==
    IF item.kind = "dict" THEN HasKey(item.value, field) ELSE InText(field, item.value)

RECURSIVE ExtractItem(_, _, _)
\* the loop over selected_fields, from the k-th on: the rest of
\* extracted_item, or the TypeError of item[field] on an item that is a str
ExtractItem(item, fields, k) ==
    IF k > Len(fields) THEN [exception |-> "none", value |-> <<>>]
    ELSE IF FieldIn(fields[k], item) /\ item.kind = "str"
         THEN [exception |-> "TypeError", value |-> <<>>]
    ELSE IF ExtractItem(item, fields, k + 1).exception # "none"
         THEN ExtractItem(item, fields, k + 1)
    ELSE [exception |-> "none",
          value |-> <<<<fields[k],
                        IF FieldIn(fields[k], item)
                        THEN IF fields[k] \in long_text_fields
                             THEN format_long_text(Get(item.value, fields[k]), DefaultMaxLength)
                             ELSE Get(item.value, fields[k])
                        ELSE None>>>>
                    \o ExtractItem(item, fields, k + 1).value]

RECURSIVE ExtractItems(_, _, _)
\* the loop over data, from the i-th item on: extracted_data, or the
\* exception that ends the loop
ExtractItems(items, fields, i) ==
    IF i > Len(items) THEN [exception |-> "none", value |-> <<>>]
    ELSE IF ExtractItem(items[i], fields, 1).exception # "none"
         THEN ExtractItem(items[i], fields, 1)
    ELSE IF ExtractItems(items, fields, i + 1).exception # "none"
         THEN ExtractItems(items, fields, i + 1)
    ELSE [exception |-> "none",
          value |-> <<ExtractItem(items[i], fields, 1).value>>
                        \o ExtractItems(items, fields, i + 1).value]

\* except Exception
HandlesException(exc) == "Exception" \in ExceptionClasses(exc)

\* extract_specific_fields: the files written (the list dumped into each)
\* and the exception that leaves the function
extract_specific_fields(resp, fields) ==
    IF get_calls(resp).exception # "none"
    THEN [files |-> <<>>, exception |-> get_calls(resp).exception]
    ELSE IF get_calls(resp).value = NoneData THEN [files |-> <<>>, exception |-> "none"]
    ELSE IF ExtractItems(Iterate(get_calls(resp).value), fields, 1).exception = "none"
         THEN [files |-> <<ExtractItems(Iterate(get_calls(resp).value), fields, 1).value>>,
               exception |-> "none"]
    ELSE IF HandlesException(ExtractItems(Iterate(get_calls(resp).value), fields, 1).exception)
         THEN [files |-> <<>>, exception |-> "none"]
    ELSE [files |-> <<>>,
          exception |-> ExtractItems(Iterate(get_calls(resp).value), fields, 1).exception]

-----------------------------------------------------------------------------
(* One run of a fetch script: the method called on its own, and the        *)
(* extraction that calls it.                                               *)

\* an item with every field of both scripts
ItemFull ==
    <<<<field_diarienummer, <<"7">>>>, <<field_titel, <<"a", " ", " ", "b">>>>,
      <<field_titelEng, <<"a">>>>, <<field_beskrivning, <<"b", "\n", "b">>>>,
      <<field_beskrivningEng, <<"b">>>>, <<field_oppningsdatum, <<"1">>>>,
      <<field_stangningsdatum, <<"2">>>>, <<field_beslut, <<"3">>>>>>

\* an item without the English fields and without a closing date
ItemSparse ==
    <<<<field_titel, <<"c">>>>, <<field_oppningsdatum, <<"4">>>>,
      <<field_beslut, <<"5">>>>>>

\* an item whose title is null
ItemNullTitle ==
    <<<<field_titel, None>>, <<field_diarienummer, <<"8">>>>>>

\* an item without any field
ItemEmpty == <<>>

Items == {ItemFull, ItemSparse, ItemNullTitle, ItemEmpty}

\* the documents a body can hold: lists of items, null, an error object, an
\* object with a selected field as key, and a body that is no JSON
Bodies ==
    {[kind |-> "list", value |-> l] : l \in SeqsUpTo(Items, MaxItems)}
        \cup {NoneData,
              [kind |-> "dict", value |-> <<<<field_message, <<"x">>>>>>],
              [kind |-> "dict", value |-> ItemSparse],
              [kind |-> "invalid", value |-> <<>>]}

\* what the request can meet: no connection, a timeout, an error status, or
\* status 200 with one of the bodies
Responses ==
    {[raises |-> e, status_code |-> 0, body |-> NoneData] : e \in {"ConnectionError", "Timeout"}}
        \cup {[raises |-> "none", status_code |-> c, body |-> d] :
                 c \in {404, 500},
                 d \in {[kind |-> "invalid", value |-> <<>>], [kind |-> "list", value |-> <<ItemFull>>]}}
        \cup {[raises |-> "none", status_code |-> 200, body |-> d] : d \in Bodies}

InitApi ==
    /\ pc = "start"
    /\ response \in Responses
    /\ selected_fields \in {selected_fields_calls, selected_fields_financed}
    /\ files = <<>>
    /\ max_length = DefaultMaxLength
    /\ text = None /\ ret = NoneData
    /\ section = None /\ ret2 = None /\ raised = FALSE
    /\ pages = <<>> /\ page_num = 0 /\ all_projects = <<>>
    /\ df = NoFrame /\ st_errors = 0 /\ excel_data = <<>>

\* the method called on its own
GetCalls ==
    /\ pc = "start"
    /\ ret' = get_calls(response).value
    /\ raised' = (get_calls(response).exception # "none")
    /\ pc' = "fetched"
    /\ UNCHANGED <<text, section, ret2, pages, page_num, all_projects, df, st_errors, excel_data, max_length, response, selected_fields, files>>

\* the script's entry point
ExtractSpecificFields ==
    /\ pc \in {"start", "fetched"}
    /\ files' = files \o extract_specific_fields(response, selected_fields).files
    /\ raised' = (extract_specific_fields(response, selected_fields).exception # "none")
    /\ pc' = "done"
    /\ UNCHANGED <<text, section, ret, ret2, pages, page_num, all_projects, df, st_errors, excel_data, max_length, response, selected_fields>>

NextApi == GetCalls \/ ExtractSpecificFields

SpecApi == InitApi /\ [][NextApi]_vars

\* the request fails: no connection, a timeout, an error status, a body that
\* is no JSON
RequestFails(resp) ==
    \/ resp.raises # "none"
    \/ resp.status_code >= 400
    \/ resp.body.kind = "invalid"

\* C30: the fetch never raises and returns None when the request fails, the
\* extraction then writes no file, and every record of a written file has
\* exactly the selected fields as keys, the records standing in the order
\* of the fetched items, with None for each field the item does not have.
C30_FetchFailsQuietlyRecordsShaped ==
    /\ raised = FALSE
    /\ (pc = "fetched" /\ RequestFails(response)) => ret = NoneData
    /\ (pc = "done" /\ RequestFails(response)) => files = <<>>
    /\ \A f \in 1..Len(files) :
           /\ Len(files[f]) = Len(response.body.value)
           /\ \A i \in 1..Len(files[f]) :
                  /\ Keys(files[f][i]) = selected_fields
                  /\ \A k \in 1..Len(selected_fields) :
                         IF FieldIn(selected_fields[k], Iterate(response.body)[i])
                         THEN selected_fields[k] \notin long_text_fields
                                  => Get(files[f][i], selected_fields[k])
                                         = Get(response.body.value[i], selected_fields[k])
                         ELSE Get(files[f][i], selected_fields[k]) = None

\* a fetched list of the full item and the sparse one, extracted by the
\* calls script: two records in that order, the second with None for its
\* four absent fields
C30_Witness ==
    /\ pc = "done"
    /\ selected_fields = selected_fields_calls
    /\ response.body = [kind |-> "list", value |-> <<ItemFull, ItemSparse>>]
    /\ Len(files) = 1
    /\ files[1][1] = <<<<field_titel, <<"a", " ", "b">>>>, <<field_titelEng, <<"a">>>>,
                       <<field_beskrivning, <<"b", " ", "b">>>>,
                       <<field_beskrivningEng, <<"b">>>>, <<field_oppningsdatum, <<"1">>>>,
                       <<field_stangningsdatum, <<"2">>>>>>
    /\ files[1][2] = <<<<field_titel, <<"c">>>>, <<field_titelEng, None>>,
                       <<field_beskrivning, None>>, <<field_beskrivningEng, None>>,
                       <<field_oppningsdatum, <<"4">>>>, <<field_stangningsdatum, None>>>>

-----------------------------------------------------------------------------
(* pdf_to_excel_converter.py: convert_pdf_to_excel as one function of the  *)
(* page texts.                                                             *)

RECURSIVE CollectProjects(_, _, _)
\* the loop over the pages, from page page_num on: the records collected,
\* and whether an exception ended the loop
CollectProjects(pgs, n, projects) ==
    IF n > Len(pgs) THEN [raised |-> FALSE, all_projects |-> projects]
    ELSE IF pgs[n] = None THEN [raised |-> TRUE, all_projects |-> projects]
    ELSE CollectProjects(pgs, n + 1,
             IF HasMarker(pgs[n]) /\ HasData(project_data_of[pgs[n]])
             THEN Append(projects, project_data_of[pgs[n]])
             ELSE projects)

\* what follows the loop: None after an exception or for an empty batch, the
\* table otherwise
ReturnedFrame(r) ==
    IF r.raised THEN NoFrame
    ELSE IF r.all_projects = <<>> THEN NoFrame
    ELSE BuildFrame(r.all_projects)

\* the value returned for the page texts of a PDF
convert_pdf_to_excel(pgs) ==
    CHOOSE frame \in {ReturnedFrame(r) : r \in {CollectProjects(pgs, 1, <<>>)}} : TRUE

-----------------------------------------------------------------------------
(* pdf_to_excel_converter_sandbox.py: the functions of the sandbox script, *)
(* each with the value it returns and the number of debug messages         *)
(* (st.write, st.warning, st.exception, st.dataframe) it emits.            *)

\* a sandbox whose overlap branch returns the rest of the text
sandbox_extract_section_overlap(t, sp, ep) ==
    IF t = None THEN [value |-> <<>>, debug |-> 1]
    ELSE LET start_matches == FindIter(sp, t)
             end_matches == FindIter(ep, t)
         IN  IF start_matches = <<>> THEN [value |-> <<>>, debug |-> 0]
             ELSE LET start_pos == ChosenStart(start_matches)[2]
                      e == FirstEndAfter(end_matches, start_pos, 1)
                      content == IF e = -1 THEN <<>> ELSE Strip(Slice(t, start_pos, e))
                  IN  IF content = <<>> /\ end_matches # <<>>
                      THEN [value |-> Strip(Slice(t, start_pos, Len(t))), debug |-> 1]
                      ELSE [value |-> content, debug |-> 0]

\* extract_section of the sandbox: a text that is no str ends in the except
\* clause with a warning; a section without content in a text that has end
\* matches is reported
sandbox_extract_section(t, sp, ep) ==
    IF t = None THEN [value |-> <<>>, debug |-> 1]
    ELSE LET start_matches == FindIter(sp, t)
             end_matches == FindIter(ep, t)
         IN  IF start_matches = <<>> THEN [value |-> <<>>, debug |-> 0]
             ELSE LET start_pos == ChosenStart(start_matches)[2]
                      e == FirstEndAfter(end_matches, start_pos, 1)
                      content == IF e = -1 THEN <<>> ELSE Strip(Slice(t, start_pos, e))
                  IN  [value |-> content,
                       debug |-> IF content = <<>> /\ end_matches # <<>> THEN 1 ELSE 0]

\* the debug output of the section loop for one section: its name, the
\* length of its content, and the first characters of a non-empty content
SectionDebug(content) == IF content # <<>> THEN 3 ELSE 2

RECURSIVE sandbox_ExtractSections(_, _, _, _, _)
\* the second loop of the sandbox, from the i-th found section on
sandbox_ExtractSections(t, positions, i, data, debug) ==
    IF i > Len(positions) THEN [value |-> data, debug |-> debug]
    ELSE LET sec == positions[i][2]
             r == sandbox_extract_section(t, start_pattern(sec), EndPatternOf(positions, i))
         IN  sandbox_ExtractSections(t, positions, i + 1,
                 IF Strip(r.value) # <<>> THEN Put(data, sec, SectionValue(sec, r.value))
                 ELSE data,
                 debug + r.debug + SectionDebug(r.value))

\* extract_project_data of the sandbox
sandbox_extract_project_data(t) ==
    LET r == sandbox_ExtractSections(t, section_positions(t), 1, EmptyData, 0)
    IN  [value |-> ExtractBudget(t, 1, r.value), debug |-> r.debug]

\* extract_project_partners of the sandbox: the original and the
\* standardized text are shown, then one message for each line that is not
\* blank, then the final list
sandbox_extract_project_partners(t) ==
    IF t = <<>> THEN [value |-> <<>>, debug |-> 0]
    ELSE LET lines == Split(StandardizeBullets(t, 1), "\n")
         IN  [value |-> CleanPartners(CollectPartners(lines)),
              debug |-> 3 + Cardinality({n \in 1..Len(lines) : Strip(lines[n]) # <<>>})]

\* the record of one eligible page in the sandbox once the partners are
\* added, with the messages about the partners text, the keys, and the
\* empty sections if there are any
sandbox_RecordWithPartners(record, debug) ==
    [value |-> record,
     debug |-> debug + 2
                   + (IF \E i \in 1..Len(record) : Strip(record[i][2]) = <<>> THEN 1 ELSE 0)]

\* partners = extract_project_partners(project_data.get('Övriga
\* projektparter', '')) and the loop that adds them to the record
sandbox_AddPartners(project_data, partners) ==
    sandbox_RecordWithPartners(AddPartners(project_data.value, partners.value, 1),
                               project_data.debug + partners.debug)

\* the partners of the data of a page
sandbox_PartnersOf(project_data) ==
    sandbox_AddPartners(project_data,
                        sandbox_extract_project_partners(Get(project_data.value, Ovriga)))

\* the record of one eligible page in the sandbox
sandbox_PageRecord(t) == sandbox_PartnersOf(sandbox_extract_project_data(t))

\* the sandbox record of each page text of the model that is a str
sandbox_project_data_of == [t \in PageTexts \ {None} |-> sandbox_PageRecord(t)]

\* the messages of a page whose record is kept: title, two lengths, the
\* number of partners, and a sample of a non-empty summary
KeptDebug(record) == IF Get(record, Sammanfattning) # <<>> THEN 5 ELSE 4

-----------------------------------------------------------------------------
(* A function of the sandbox called on one input.                          *)

InitSandbox ==
    /\ \/ /\ pc = "section"
          /\ section \in SectionChoices
          /\ text \in SectionTexts(section)
          /\ pages = <<>>
       \/ /\ pc = "data"
          /\ section = None
          /\ text \in DataTexts \cup FieldTexts
          /\ pages = <<>>
       \/ /\ pc = "partners"
          /\ section = None
          /\ text \in PartnerInputs
          /\ pages = <<>>
       \/ /\ pc = "convert"
          /\ section = None
          /\ text = None
          /\ pages \in SeqsUpTo(PageTexts, MaxSandboxPages)
    /\ ret = [value |-> <<>>, debug |-> IF pc = "convert" THEN 1 ELSE 0]
    /\ ret2 = None /\ raised = FALSE
    /\ page_num = (IF pc = "convert" THEN 1 ELSE 0) /\ all_projects = <<>>
    /\ df = NoFrame /\ st_errors = 0 /\ excel_data = <<>>
    /\ max_length = 0 /\ response = None /\ selected_fields = <<>> /\ files = <<>>

SandboxSection ==
    /\ pc = "section"
    /\ ret' = sandbox_extract_section(text, start_pattern(section), end_pattern(section))
    /\ pc' = "section done"
    /\ UNCHANGED <<text, section, ret2, raised, pages, page_num, all_projects, df, st_errors, excel_data, max_length, response, selected_fields, files>>

SandboxData ==
    /\ pc = "data"
    /\ ret' = sandbox_extract_project_data(text)
    /\ pc' = "data done"
    /\ UNCHANGED <<text, section, ret2, raised, pages, page_num, all_projects, df, st_errors, excel_data, max_length, response, selected_fields, files>>

SandboxPartners ==
    /\ pc = "partners"
    /\ ret' = sandbox_extract_project_partners(text)
    /\ pc' = "partners done"
    /\ UNCHANGED <<text, section, ret2, raised, pages, page_num, all_projects, df, st_errors, excel_data, max_length, response, selected_fields, files>>

\* one turn of the page loop of the sandbox, or the exception that ends it;
\* ret.debug counts the debug messages, the first being the number of pages
SandboxProcessPage ==
    /\ pc = "convert"
    /\ page_num <= Len(pages)
    /\ text' = pages[page_num]
    /\ IF pages[page_num] = None
       THEN /\ st_errors' = st_errors + 1
            /\ df' = NoFrame
            /\ ret' = [value |-> <<>>, debug |-> ret.debug + 2]
            /\ pc' = "convert done"
            /\ UNCHANGED <<all_projects, page_num>>
       ELSE /\ \E r \in {IF HasMarker(pages[page_num])
                        THEN sandbox_project_data_of[pages[page_num]]
                        ELSE [value |-> <<>>, debug |-> 0]} :
                  /\ all_projects' =
                         IF HasMarker(pages[page_num]) /\ HasData(r.value)
                         THEN Append(all_projects, r.value)
                         ELSE all_projects
                  /\ ret' = [value |-> <<>>,
                             debug |-> ret.debug + 1
                                 + (IF ~HasMarker(pages[page_num]) THEN 0
                                    ELSE r.debug + (IF HasData(r.value)
                                                    THEN KeptDebug(r.value) ELSE 1))]
            /\ page_num' = page_num + 1
            /\ UNCHANGED <<pc, df, st_errors>>
    /\ UNCHANGED <<section, ret2, raised, pages, excel_data, max_length, response, selected_fields, files>>

\* after the loop in the sandbox: the error for an empty batch, or the
\* table with the seven messages about it
SandboxFinish ==
    /\ pc = "convert"
    /\ page_num > Len(pages)
    /\ IF all_projects = <<>>
       THEN /\ st_errors' = st_errors + 1
            /\ df' = NoFrame
            /\ UNCHANGED ret
       ELSE /\ df' = BuildFrame(all_projects)
            /\ ret' = [value |-> <<>>, debug |-> ret.debug + 7]
            /\ UNCHANGED st_errors
    /\ pc' = "convert done"
    /\ UNCHANGED <<text, section, ret2, raised, pages, page_num, all_projects, excel_data, max_length, response, selected_fields, files>>

NextSandbox ==
    SandboxSection \/ SandboxData \/ SandboxPartners \/ SandboxProcessPage \/ SandboxFinish

SpecSandbox == InitSandbox /\ [][NextSandbox]_vars

\* C24: each function of the sandbox returns what the function of the same
\* name of the production script returns on the same input.
C24_SandboxReturnsSame ==
    /\ pc = "section done"
           => ret.value = extract_section(text, start_pattern(section), end_pattern(section))
    /\ pc = "data done" => ret.value = extract_project_data(text)
    /\ pc = "partners done" => ret.value = extract_project_partners(text)
    /\ pc = "convert done" => df = convert_pdf_to_excel(pages)

\* a PDF of a page with one partner and a page with three: the sandbox
\* returns the table of two rows that production returns, and has emitted
\* debug messages
C24_Witness ==
    /\ pc = "convert done"
    /\ pages = <<PageOne, PageThree>>
    /\ df # NoFrame /\ Len(df.rows) = 2
    /\ df = convert_pdf_to_excel(pages)
    /\ ret.debug > 0

====
